---- MODULE Spec2Model ----
(***************************************************************************)
(* RH Control: vacation entitlement (FeriasManager), the leave record      *)
(* model (Afastamento), the validators (Validators), and the leave,        *)
(* employee and user operations of the dashboard over the afastamentos,    *)
(* funcionarios and usuarios tables of DatabaseSQL.                        *)
(*                                                                         *)
(* A datetime is an integer number of ticks since the first midnight of    *)
(* the first modelled year; a day has TicksPerDay ticks.  An absent value  *)
(* (Python None) is the integer None.                                      *)
(***************************************************************************)
EXTENDS Integers, Sequences, FiniteSets, TLC

VARIABLES agora, funcionario, afastamentos, ret, funcionarios, tabela, proximo_id, sessao,
          usuarios

vars == <<agora, funcionario, afastamentos, ret, funcionarios, tabela, proximo_id, sessao, usuarios>>

(***************************************************************************)
(* Bounds                                                                  *)
(***************************************************************************)
TicksPerDay == 2
MaxAfastamentos == 2
MaxTabela == 2
MaxSerial == 3
MaxSessoes == 2

(***************************************************************************)
(* Configuration (src/config.py)                                           *)
(***************************************************************************)
DIAS_FERIAS_ANUAL == 30
MESES_PARA_FERIAS == 12

(***************************************************************************)
(* datetime: the Gregorian calendar over the modelled years                *)
(***************************************************************************)
None == 0 - 1

Years == 2023..2026

IsLeap(y) == (y % 4 = 0 /\ y % 100 # 0) \/ y % 400 = 0

DaysInYear(y) == IF IsLeap(y) THEN 366 ELSE 365

DaysInMonth(y, m) ==
    IF m = 2 THEN (IF IsLeap(y) THEN 29 ELSE 28)
    ELSE IF m \in {4, 6, 9, 11} THEN 30 ELSE 31

RECURSIVE DaysBeforeYear(_)
DaysBeforeYear(y) ==
    IF y <= 2023 THEN 0 ELSE DaysBeforeYear(y - 1) + DaysInYear(y - 1)

RECURSIVE DaysBeforeMonth(_, _)
DaysBeforeMonth(y, m) ==
    IF m <= 1 THEN 0 ELSE DaysBeforeMonth(y, m - 1) + DaysInMonth(y, m - 1)

\* ordinal of a calendar day, 0 for the first day of the first modelled year
Ordinal(y, m, d) == DaysBeforeYear(y) + DaysBeforeMonth(y, m) + (d - 1)

\* datetime(y, m, d) plus t ticks of time of day
DT(y, m, d, t) == Ordinal(y, m, d) * TicksPerDay + t

\* datetime.date(): the calendar day of a datetime
OrdinalOf(dt) == dt \div TicksPerDay

\* the calendar days of the modelled years
Ordinais == 0..(DaysBeforeYear(2027) - 1)

\* the year and the month of every calendar day
AnoDoDia ==
    [o \in Ordinais |->
        CHOOSE y \in Years : DaysBeforeYear(y) <= o /\ o < DaysBeforeYear(y + 1)]

MesDoDia ==
    [o \in Ordinais |->
        LET y == AnoDoDia[o]
            r == o - DaysBeforeYear(y)
        IN  CHOOSE m \in 1..12 :
                DaysBeforeMonth(y, m) <= r /\ r < DaysBeforeMonth(y, m) + DaysInMonth(y, m)]

\* datetime.year
YearOf(dt) == AnoDoDia[OrdinalOf(dt)]

\* datetime.month
MonthOf(dt) == MesDoDia[OrdinalOf(dt)]

\* timedelta.days of (a - b): whole days, rounded towards minus infinity
Days(a, b) == (a - b) \div TicksPerDay

\* timedelta(days=n) added to a datetime
PlusDays(dt, n) == dt + n * TicksPerDay

\* datetime.combine(date, datetime.min.time())
Combine(ordinal) == ordinal * TicksPerDay

(***************************************************************************)
(* Afastamento (src/models/afastamento.py)                                 *)
(***************************************************************************)
\* the value of TipoAfastamento.FERIAS
FERIAS == "Ferias"
ATESTADO_MEDICO == "Atestado Medico"

TipoAfastamento == {ATESTADO_MEDICO, FERIAS}

Afastamento(id, funcionario_id, tipo, data_inicio, data_fim) ==
    [id |-> id, funcionario_id |-> funcionario_id, tipo |-> tipo,
     data_inicio |-> data_inicio, data_fim |-> data_fim]

\* the day count without the inclusive end day
dias_afastamento_exclusivo(self) ==
    IF self.data_inicio # None /\ self.data_fim # None
    THEN Days(self.data_fim, self.data_inicio)
    ELSE 0

dias_afastamento(self) ==
    IF self.data_inicio # None /\ self.data_fim # None
    THEN Days(self.data_fim, self.data_inicio) + 1
    ELSE 0

(***************************************************************************)
(* FeriasManager (src/utils/ferias.py)                                     *)
(***************************************************************************)
\* the elapsed time counted in periods of 30 days
tempo_servico_dias(data_admissao) ==
    (OrdinalOf(agora) - OrdinalOf(data_admissao)) \div 30

\* tempo_servico: elapsed calendar months between data_admissao and agora
tempo_servico(data_admissao) ==
    (YearOf(agora) - YearOf(data_admissao)) * 12
        + (MonthOf(agora) - MonthOf(data_admissao))

\* the eligibility test with <= in place of <
calcular_dias_ferias_disponiveis_le(f) ==
    IF f.data_admissao = None THEN 0
    ELSE IF tempo_servico(f.data_admissao) <= MESES_PARA_FERIAS THEN 0
    ELSE (tempo_servico(f.data_admissao) \div MESES_PARA_FERIAS) * DIAS_FERIAS_ANUAL

calcular_dias_ferias_disponiveis(f) ==
    IF f.data_admissao = None THEN 0
    ELSE IF tempo_servico(f.data_admissao) < MESES_PARA_FERIAS THEN 0
    ELSE (tempo_servico(f.data_admissao) \div MESES_PARA_FERIAS) * DIAS_FERIAS_ANUAL

\* the loop without the test of the record's kind
RECURSIVE dias_usados_loop_todos(_, _, _)
dias_usados_loop_todos(afs, i, dias_usados) ==
    IF i > Len(afs) THEN dias_usados
    ELSE dias_usados_loop_todos(afs, i + 1, dias_usados + dias_afastamento(afs[i]))

\* the for loop of calcular_dias_ferias_usados from index i on
RECURSIVE dias_usados_loop(_, _, _)
dias_usados_loop(afs, i, dias_usados) ==
    IF i > Len(afs) THEN dias_usados
    ELSE IF afs[i].tipo = FERIAS
         THEN dias_usados_loop(afs, i + 1, dias_usados + dias_afastamento(afs[i]))
         ELSE dias_usados_loop(afs, i + 1, dias_usados)

calcular_dias_ferias_usados(f, afs) == dias_usados_loop(afs, 1, 0)

Max(a, b) == IF a >= b THEN a ELSE b

\* the difference without the clamp at zero
calcular_dias_ferias_restantes_sem_max(f, afs) ==
    calcular_dias_ferias_disponiveis(f) - calcular_dias_ferias_usados(f, afs)

calcular_dias_ferias_restantes(f, afs) ==
    Max(0, calcular_dias_ferias_disponiveis(f) - calcular_dias_ferias_usados(f, afs))

\* the next date counted with a year of 365 days
obter_proxima_data_ferias_365(f) ==
    IF f.data_admissao = None THEN None
    ELSE IF tempo_servico(f.data_admissao) >= MESES_PARA_FERIAS THEN agora
    ELSE PlusDays(f.data_admissao, 365)

obter_proxima_data_ferias(f) ==
    IF f.data_admissao = None THEN None
    ELSE IF tempo_servico(f.data_admissao) >= MESES_PARA_FERIAS THEN agora
    ELSE PlusDays(f.data_admissao, MESES_PARA_FERIAS * 30)

\* the overlap test with exclusive end points
sobreposicao_exclusiva(data_inicio, data_fim, afastamento) ==
    ~(data_fim <= afastamento.data_inicio \/ data_inicio >= afastamento.data_fim)

\* the overlap test of validar_ferias between the requested period and one record
sobreposicao(data_inicio, data_fim, afastamento) ==
    ~(data_fim < afastamento.data_inicio \/ data_inicio > afastamento.data_fim)

\* the conflict loop leaving after its first record
conflito_loop_primeiro(data_inicio, data_fim, afs, i) ==
    IF i > Len(afs) THEN 0
    ELSE IF afs[i].data_inicio # None /\ afs[i].data_fim # None
            /\ sobreposicao(data_inicio, data_fim, afs[i])
         THEN i
         ELSE 0

\* the conflict loop applying the overlap test to records without dates too
RECURSIVE conflito_loop_sem_guarda(_, _, _, _)
conflito_loop_sem_guarda(data_inicio, data_fim, afs, i) ==
    IF i > Len(afs) THEN 0
    ELSE IF sobreposicao(data_inicio, data_fim, afs[i])
         THEN i
         ELSE conflito_loop_sem_guarda(data_inicio, data_fim, afs, i + 1)

\* the conflict loop of validar_ferias from index i on: the first conflicting
\* record's index, or 0 when the loop runs to its end
RECURSIVE conflito_loop(_, _, _, _)
conflito_loop(data_inicio, data_fim, afs, i) ==
    IF i > Len(afs) THEN 0
    ELSE IF afs[i].data_inicio # None /\ afs[i].data_fim # None
            /\ sobreposicao(data_inicio, data_fim, afs[i])
         THEN i
         ELSE conflito_loop(data_inicio, data_fim, afs, i + 1)

\* the balance test with >= in place of >
validar_ferias_ge(f, data_inicio, data_fim, afs) ==
    LET dias_solicitados == Days(data_fim, data_inicio) + 1
        dias_restantes == calcular_dias_ferias_restantes(f, afs)
        c == conflito_loop(data_inicio, data_fim, afs, 1)
    IN  IF dias_solicitados >= dias_restantes
        THEN <<FALSE, <<"apenas dias disponiveis", dias_restantes, dias_solicitados>>>>
        ELSE IF c # 0
        THEN <<FALSE, <<"conflito", afs[c].tipo>>>>
        ELSE <<TRUE, <<"validadas">>>>

\* the conflict loop run before the balance test
validar_ferias_conflito_antes(f, data_inicio, data_fim, afs) ==
    LET dias_solicitados == Days(data_fim, data_inicio) + 1
        dias_restantes == calcular_dias_ferias_restantes(f, afs)
        c == conflito_loop(data_inicio, data_fim, afs, 1)
    IN  IF c # 0
        THEN <<FALSE, <<"conflito", afs[c].tipo>>>>
        ELSE IF dias_solicitados > dias_restantes
        THEN <<FALSE, <<"apenas dias disponiveis", dias_restantes, dias_solicitados>>>>
        ELSE <<TRUE, <<"validadas">>>>

\* returns <<ok, message>>; the message is the text's kind and the values it cites
validar_ferias(f, data_inicio, data_fim, afs) ==
    LET dias_solicitados == Days(data_fim, data_inicio) + 1
        dias_restantes == calcular_dias_ferias_restantes(f, afs)
        c == conflito_loop(data_inicio, data_fim, afs, 1)
    IN  IF dias_solicitados > dias_restantes
        THEN <<FALSE, <<"apenas dias disponiveis", dias_restantes, dias_solicitados>>>>
        ELSE IF c # 0
        THEN <<FALSE, <<"conflito", afs[c].tipo>>>>
        ELSE <<TRUE, <<"validadas">>>>

gerar_relatorio_ferias(f, afs) ==
    [dias_disponiveis |-> calcular_dias_ferias_disponiveis(f),
     dias_usados |-> calcular_dias_ferias_usados(f, afs),
     dias_restantes |-> calcular_dias_ferias_restantes(f, afs),
     proxima_data_ferias |-> obter_proxima_data_ferias(f)]

(***************************************************************************)
(* Inputs of the FeriasManager calls                                       *)
(***************************************************************************)
Funcionario(id, data_admissao) == [id |-> id, data_admissao |-> data_admissao]

\* <<data_admissao, agora>>: no hire date, 17 months, 11 months, 24 months,
\* hired after the evaluation date
Ambientes ==
    { <<None, DT(2024, 6, 1, 1)>>,
      <<DT(2023, 1, 1, 0), DT(2024, 6, 1, 1)>>,
      <<DT(2023, 1, 15, 0), DT(2023, 12, 15, 0)>>,
      <<DT(2023, 1, 15, 0), DT(2025, 1, 20, 1)>>,
      <<DT(2025, 2, 1, 0), DT(2024, 6, 1, 0)>> }

\* <<data_inicio, data_fim>> of the records of a history
Periodos ==
    { <<DT(2024, 1, 1, 0), DT(2024, 1, 10, 0)>>,
      <<DT(2024, 1, 11, 0), DT(2024, 1, 20, 0)>>,
      <<DT(2024, 1, 5, 0), DT(2024, 1, 5, 0)>>,
      <<DT(2024, 1, 10, 0), DT(2024, 1, 1, 0)>>,
      <<DT(2024, 1, 1, 0), DT(2024, 2, 15, 0)>>,
      <<DT(2024, 1, 5, 1), DT(2024, 1, 6, 1)>>,
      <<None, DT(2024, 1, 10, 0)>>,
      <<DT(2024, 1, 6, 0), None>> }

Registros ==
    { Afastamento(None, 1, t, p[1], p[2]) : t \in TipoAfastamento, p \in Periodos }

Historicos == UNION { [1..n -> Registros] : n \in 0..MaxAfastamentos }

\* the requested periods
Inicios == { DT(2024, 1, 1, 0), DT(2024, 1, 6, 0), DT(2024, 1, 11, 0) }
Fins == { DT(2024, 1, 5, 0), DT(2024, 1, 10, 0), DT(2024, 1, 25, 0) }

\* hire dates and evaluation dates of the calendar sweep
Admissoes ==
    {None} \cup { DT(y, m, d, 0) : y \in 2023..2025, m \in 1..12, d \in {15, 28} }
Agoras ==
    { DT(y, m, d, 1) : y \in 2023..2025, m \in 1..12, d \in {1, 15} }

AppIdle ==
    /\ funcionarios = <<>>
    /\ tabela = <<>>
    /\ proximo_id = 1
    /\ sessao = <<>>
    /\ usuarios = <<>>

InitHistorico ==
    /\ \E e \in Ambientes : funcionario = Funcionario(1, e[1]) /\ agora = e[2]
    /\ afastamentos \in Historicos

InitCalendario ==
    /\ \E h \in Admissoes : funcionario = Funcionario(1, h)
    /\ agora \in Agoras
    /\ afastamentos = <<>>

InitFerias ==
    /\ InitHistorico \/ InitCalendario
    /\ ret = [op |-> "none"]
    /\ AppIdle

\* a caller evaluates validar_ferias for a requested period of some kind
ValidarFerias ==
    /\ ret.op = "none"
    /\ \E data_inicio \in Inicios, data_fim \in Fins, tipo \in TipoAfastamento :
          ret' = [op |-> "validar_ferias", tipo |-> tipo,
                  data_inicio |-> data_inicio, data_fim |-> data_fim,
                  resultado |-> validar_ferias(funcionario, data_inicio, data_fim, afastamentos)]
    /\ UNCHANGED <<agora, funcionario, afastamentos, funcionarios, tabela, proximo_id, sessao, usuarios>>

\* a caller evaluates gerar_relatorio_ferias
GerarRelatorioFerias ==
    /\ ret.op = "none"
    /\ ret' = [op |-> "gerar_relatorio_ferias",
               relatorio |-> gerar_relatorio_ferias(funcionario, afastamentos)]
    /\ UNCHANGED <<agora, funcionario, afastamentos, funcionarios, tabela, proximo_id, sessao, usuarios>>

\* a caller evaluates dias_afastamento() of one record of the history
DiasAfastamento ==
    /\ ret.op = "none"
    /\ \E i \in DOMAIN afastamentos :
          ret' = [op |-> "dias_afastamento", afastamento |-> afastamentos[i],
                  dias |-> dias_afastamento(afastamentos[i])]
    /\ UNCHANGED <<agora, funcionario, afastamentos, funcionarios, tabela, proximo_id, sessao, usuarios>>

NextFerias == ValidarFerias \/ GerarRelatorioFerias \/ DiasAfastamento

SpecFerias == InitFerias /\ [][NextFerias]_vars

(***************************************************************************)
(* DatabaseSQL (src/utils/database_sql.py): the afastamentos table is the  *)
(* sequence of its rows in rowid order, proximo_id the AUTOINCREMENT value *)
(***************************************************************************)
\* what a lookup returns when no row matches (Python None in place of a row)
Ausente == [id |-> None]

\* listar_funcionarios: the rows of the funcionarios table, active only or all
listar_funcionarios(apenas_ativos) ==
    SelectSeq(funcionarios, LAMBDA f : ~apenas_ativos \/ f.ativo)

\* obter_funcionario: the row with the identifier (identifiers are unique),
\* active or not; Ausente when there is none
obter_funcionario(funcionario_id) ==
    IF \E i \in DOMAIN funcionarios : funcionarios[i].id = funcionario_id
    THEN CHOOSE f \in {funcionarios[i] : i \in DOMAIN funcionarios} : f.id = funcionario_id
    ELSE Ausente

\* INSERT: the row gets the next identifier
criar_afastamento(tab, a) == Append(tab, [a EXCEPT !.id = proximo_id])

\* ORDER BY data_inicio DESC: x goes behind the rows that start later or together
RECURSIVE InserirDesc(_, _)
InserirDesc(ordenado, x) ==
    IF ordenado = <<>> THEN <<x>>
    ELSE IF Head(ordenado).data_inicio >= x.data_inicio
         THEN <<Head(ordenado)>> \o InserirDesc(Tail(ordenado), x)
         ELSE <<x>> \o ordenado

RECURSIVE OrdenarDesc(_)
OrdenarDesc(seq) ==
    IF seq = <<>> THEN <<>>
    ELSE InserirDesc(OrdenarDesc(SubSeq(seq, 1, Len(seq) - 1)), seq[Len(seq)])

\* SELECT ... WHERE funcionario_id = ? ORDER BY data_inicio DESC
listar_afastamentos_por_funcionario(tab, funcionario_id) ==
    OrdenarDesc(SelectSeq(tab, LAMBDA a : a.funcionario_id = funcionario_id))

\* the update writing the two dates into each other's column
atualizar_afastamento_trocado(tab, a) ==
    [i \in DOMAIN tab |->
        IF tab[i].id = a.id
        THEN [tab[i] EXCEPT !.tipo = a.tipo, !.data_inicio = a.data_fim,
                            !.data_fim = a.data_inicio]
        ELSE tab[i]]

\* UPDATE ... SET tipo, data_inicio, data_fim WHERE id = ?
atualizar_afastamento(tab, a) ==
    [i \in DOMAIN tab |->
        IF tab[i].id = a.id
        THEN [tab[i] EXCEPT !.tipo = a.tipo, !.data_inicio = a.data_inicio,
                            !.data_fim = a.data_fim]
        ELSE tab[i]]

\* DELETE ... WHERE id = ?
deletar_afastamento(tab, afastamento_id) ==
    SelectSeq(tab, LAMBDA a : a.id # afastamento_id)

(***************************************************************************)
(* The leave forms of the dashboard (src/pages/dashboard.py)               *)
(***************************************************************************)
FuncionarioRow(id, nome, data_admissao, ativo) ==
    [id |-> id, nome |-> nome, data_admissao |-> data_admissao, ativo |-> ativo]

\* the days offered by st.date_input, as calendar ordinals
DatasFormulario == { Ordinal(2024, 1, 1), Ordinal(2024, 1, 5), Ordinal(2024, 1, 6) }

Motivos == { "", "motivo" }

\* two employees: 17 months of service (30 days accrued) and 3 months (none)
FuncionariosDemo ==
    << FuncionarioRow(1, "Ana", DT(2023, 1, 1, 0), TRUE),
       FuncionarioRow(2, "Bia", DT(2024, 3, 1, 0), TRUE) >>

\* init_db.py: a vacation record of the first employee, dated from datetime.now()
AfastamentosDemo ==
    << Afastamento(1, 1, FERIAS, PlusDays(DT(2024, 6, 1, 1), 0 - 30),
                   PlusDays(DT(2024, 6, 1, 1), 0 - 20)) >>

FeriasIdle ==
    /\ funcionario = Funcionario(None, None)
    /\ afastamentos = <<>>
    /\ ret = [op |-> "none"]

Init ==
    /\ agora = DT(2024, 6, 1, 1)
    /\ funcionarios = FuncionariosDemo
    /\ \/ tabela = <<>> /\ proximo_id = 1
       \/ tabela = AfastamentosDemo /\ proximo_id = 2
    /\ sessao = <<>>
    /\ usuarios = <<>>
    /\ FeriasIdle

Ids(tab) == { tab[i].id : i \in DOMAIN tab }

\* form_novo_afastamento: the submit handler
SubmitNovoAfastamento ==
    /\ proximo_id <= MaxTabela
    /\ \E i \in DOMAIN listar_funcionarios(TRUE), tipo \in TipoAfastamento,
          data_inicio \in DatasFormulario, data_fim \in DatasFormulario, motivo \in Motivos :
          LET f == listar_funcionarios(TRUE)[i]
              novo_afastamento ==
                  Afastamento(None, f.id, tipo, Combine(data_inicio), Combine(data_fim))
          IN  IF motivo = ""
              THEN /\ ret' = [op |-> "novo_afastamento", erro |-> "motivo"]
                   /\ UNCHANGED <<tabela, proximo_id>>
              ELSE IF data_inicio > data_fim
              THEN /\ ret' = [op |-> "novo_afastamento", erro |-> "datas"]
                   /\ UNCHANGED <<tabela, proximo_id>>
              ELSE /\ tabela' = criar_afastamento(tabela, novo_afastamento)
                   /\ proximo_id' = proximo_id + 1
                   /\ ret' = [op |-> "novo_afastamento", erro |-> "nenhum"]
    /\ UNCHANGED <<agora, funcionario, afastamentos, funcionarios, sessao, usuarios>>

\* form_editar_afastamento: the submit handler for a selected record
SubmitEditarAfastamento ==
    /\ \E k \in DOMAIN tabela, tipo \in TipoAfastamento,
          data_inicio \in DatasFormulario, data_fim \in DatasFormulario :
          LET afastamento_selecionado ==
                  [tabela[k] EXCEPT !.tipo = tipo, !.data_inicio = Combine(data_inicio),
                                    !.data_fim = Combine(data_fim)]
          IN  IF data_inicio > data_fim
              THEN /\ ret' = [op |-> "editar_afastamento", erro |-> "datas"]
                   /\ UNCHANGED tabela
              ELSE /\ tabela' = atualizar_afastamento(tabela, afastamento_selecionado)
                   /\ ret' = [op |-> "editar_afastamento", erro |-> "nenhum"]
    /\ UNCHANGED <<agora, funcionario, afastamentos, funcionarios, proximo_id, sessao, usuarios>>

\* the delete button for a selected record
DeletarAfastamento ==
    /\ \E k \in DOMAIN tabela : tabela' = deletar_afastamento(tabela, tabela[k].id)
    /\ ret' = [op |-> "deletar_afastamento", erro |-> "nenhum"]
    /\ UNCHANGED <<agora, funcionario, afastamentos, funcionarios, proximo_id, sessao, usuarios>>

Next == SubmitNovoAfastamento \/ SubmitEditarAfastamento \/ DeletarAfastamento

Spec == Init /\ [][Next]_vars

\* the history the validator would be given for a new row of the table
HistoricoDe(tab, a) == listar_afastamentos_por_funcionario(tab, a.funcionario_id)

\* validar_ferias accepts the row against the employee's records in tab
Validado(tab, a) ==
    validar_ferias(obter_funcionario(a.funcionario_id), a.data_inicio, a.data_fim,
                   HistoricoDe(tab, a))[1]

\* the rows of tabela' that tabela does not hold
Novos == { tabela'[i] : i \in { j \in DOMAIN tabela' : tabela'[j].id \notin Ids(tabela) } }

\* C2: a new leave record reaches criar_afastamento only after validar_ferias
\* returned ok for it against the employee's existing records; a candidate the
\* validator would reject is never persisted.
C2_CriarSoAposValidar ==
    [][\A a \in Novos : Validado(tabela, a)]_vars

(***************************************************************************)
(* Properties of the FeriasManager calls (SpecFerias)                      *)
(***************************************************************************)
Validou == ret.op = "validar_ferias"
Relatou == ret.op = "gerar_relatorio_ferias"

\* both dates present
Datado(a) == a.data_inicio # None /\ a.data_fim # None

\* a value without time of day
MeiaNoite(dt) == dt % TicksPerDay = 0

\* the calendar days of an inclusive period
DiasDoPeriodo(data_inicio, data_fim) == OrdinalOf(data_inicio)..OrdinalOf(data_fim)

\* the stated conflict test between a requested period and a record
Conflita(data_inicio, data_fim, a) ==
    Datado(a) /\ ~(data_fim < a.data_inicio \/ data_inicio > a.data_fim)

DiasSolicitados == ((ret.data_fim - ret.data_inicio) \div TicksPerDay) + 1

Disponiveis == calcular_dias_ferias_disponiveis(funcionario)
Usados == calcular_dias_ferias_usados(funcionario, afastamentos)
Restantes == calcular_dias_ferias_restantes(funcionario, afastamentos)

HaConflito ==
    \E i \in DOMAIN afastamentos : Conflita(ret.data_inicio, ret.data_fim, afastamentos[i])

\* C1: validar_ferias returns ok exactly when the requested days (end - start
\* in whole days, plus one) do not exceed the remaining days and no record with
\* both dates present satisfies NOT(end < record.start OR start > record.end);
\* with 30 days accrued and 10 consumed a 25-day request is rejected and a
\* 5-day request without overlap is accepted.
C1_ValidarOkExatamente ==
    Validou =>
        /\ ret.resultado[1] = (DiasSolicitados <= Restantes /\ ~HaConflito)
        /\ (Disponiveis = 30 /\ Usados = 10 /\ DiasSolicitados = 25)
              => ret.resultado = <<FALSE, <<"apenas dias disponiveis", 20, 25>>>>
        /\ (Disponiveis = 30 /\ Usados = 10 /\ DiasSolicitados = 5 /\ ~HaConflito)
              => ret.resultado[1] = TRUE

C1_Witness ==
    /\ Validou
    /\ Disponiveis = 30 /\ Usados = 10 /\ DiasSolicitados = 5
    /\ Len(afastamentos) > 0
    /\ ret.resultado[1] = TRUE

\* C5: the remaining days are max(0, accrued - consumed), never negative,
\* whatever the hire date and however large the consumed total.
C5_RestantesNaoNegativo ==
    Relatou =>
        LET r == ret.relatorio
            saldo == r.dias_disponiveis - r.dias_usados
        IN  /\ r.dias_restantes >= 0
            /\ r.dias_restantes = (IF saldo > 0 THEN saldo ELSE 0)

C5_Witness ==
    /\ Relatou
    /\ ret.relatorio.dias_disponiveis > 0
    /\ ret.relatorio.dias_usados > ret.relatorio.dias_disponiveis
    /\ ret.relatorio.dias_restantes = 0

\* elapsed months (asOf.year - hire.year)*12 + (asOf.month - hire.month)
MesesDecorridos ==
    (YearOf(agora) - YearOf(funcionario.data_admissao)) * 12
        + (MonthOf(agora) - MonthOf(funcionario.data_admissao))

\* the hire date and the evaluation date fall on the given calendar days
Caso(y1, m1, d1, y2, m2, d2) ==
    /\ funcionario.data_admissao # None
    /\ OrdinalOf(funcionario.data_admissao) = Ordinal(y1, m1, d1)
    /\ OrdinalOf(agora) = Ordinal(y2, m2, d2)

\* C6: the accrued days are 0 when the elapsed months are below the threshold
\* (also for a hire date after the evaluation date and for no hire date) and
\* floor(elapsed / threshold) * daysPerPeriod otherwise; always a non-negative
\* multiple of daysPerPeriod; 11 months give 0, 12 give 30 and 24 give 60.
C6_DiasDisponiveis ==
    Relatou =>
        LET d == ret.relatorio.dias_disponiveis
        IN  /\ d >= 0 /\ d % DIAS_FERIAS_ANUAL = 0
            /\ funcionario.data_admissao = None => d = 0
            /\ funcionario.data_admissao # None =>
                  d = (IF MesesDecorridos < MESES_PARA_FERIAS THEN 0
                       ELSE (MesesDecorridos \div MESES_PARA_FERIAS) * DIAS_FERIAS_ANUAL)
            /\ (funcionario.data_admissao # None /\ funcionario.data_admissao > agora)
                  => d = 0
            /\ Caso(2023, 1, 15, 2023, 12, 15) => d = 0
            /\ Caso(2023, 1, 15, 2024, 1, 15) => d = 30
            /\ Caso(2023, 1, 15, 2025, 1, 20) => d = 60

C6_Witness ==
    /\ Relatou
    /\ Caso(2023, 1, 15, 2025, 1, 20)
    /\ ret.relatorio.dias_disponiveis = 60

\* the sequence without its i-th element
SemIndice(seq, i) == SubSeq(seq, 1, i - 1) \o SubSeq(seq, i + 1, Len(seq))

\* the sum of dias_afastamento over the records of a set of indices
RECURSIVE SomaDias(_, _)
SomaDias(afs, idx) ==
    IF idx = {} THEN 0
    ELSE LET i == CHOOSE j \in idx : TRUE
         IN  dias_afastamento(afs[i]) + SomaDias(afs, idx \ {i})

NaoFerias == { r \in Registros : r.tipo # FERIAS }

\* C7: the consumed days are the sum of the day counts of exactly the records
\* whose kind is the vacation tag; removing, replacing or adding a record of
\* another kind changes neither the consumed nor the remaining days.
C7_UsadosSoFerias ==
    Relatou =>
        LET r == ret.relatorio
            afs == afastamentos
        IN  /\ r.dias_usados = SomaDias(afs, { i \in DOMAIN afs : afs[i].tipo = FERIAS })
            /\ \A i \in DOMAIN afs :
                  afs[i].tipo # FERIAS =>
                      /\ calcular_dias_ferias_usados(funcionario, SemIndice(afs, i)) = r.dias_usados
                      /\ calcular_dias_ferias_restantes(funcionario, SemIndice(afs, i)) = r.dias_restantes
                      /\ \A n \in NaoFerias :
                            /\ calcular_dias_ferias_usados(funcionario, [afs EXCEPT ![i] = n]) = r.dias_usados
                            /\ calcular_dias_ferias_restantes(funcionario, [afs EXCEPT ![i] = n]) = r.dias_restantes
            /\ \A n \in NaoFerias :
                  /\ calcular_dias_ferias_usados(funcionario, Append(afs, n)) = r.dias_usados
                  /\ calcular_dias_ferias_restantes(funcionario, <<n>> \o afs) = r.dias_restantes

C7_Witness ==
    /\ Relatou
    /\ \E i, j \in DOMAIN afastamentos :
          /\ afastamentos[i].tipo = FERIAS /\ dias_afastamento(afastamentos[i]) = 10
          /\ afastamentos[j].tipo # FERIAS /\ dias_afastamento(afastamentos[j]) = 46
    /\ ret.relatorio.dias_usados = 10
    /\ ret.relatorio.dias_restantes = 20

\* C8: dias_afastamento is (end - start in whole days) + 1 when both dates are
\* present and 0 when either is absent; a record that starts and ends on the
\* same date counts 1 day and 2024-01-01..2024-01-10 counts 10 days.
C8_DiasAfastamento ==
    ret.op = "dias_afastamento" =>
        LET a == ret.afastamento
        IN  /\ Datado(a) => ret.dias = ((a.data_fim - a.data_inicio) \div TicksPerDay) + 1
            /\ ~Datado(a) => ret.dias = 0
            /\ (Datado(a) /\ a.data_inicio = a.data_fim) => ret.dias = 1
            /\ (Datado(a) /\ MeiaNoite(a.data_inicio) /\ MeiaNoite(a.data_fim)
                  /\ a.data_inicio <= a.data_fim)
                  => ret.dias = Cardinality(DiasDoPeriodo(a.data_inicio, a.data_fim))
            /\ (a.data_inicio = DT(2024, 1, 1, 0) /\ a.data_fim = DT(2024, 1, 10, 0))
                  => ret.dias = 10

C8_Witness ==
    /\ ret.op = "dias_afastamento"
    /\ ret.afastamento.data_inicio = DT(2024, 1, 1, 0)
    /\ ret.afastamento.data_fim = DT(2024, 1, 10, 0)
    /\ ret.dias = 10

\* a well-formed date interval: both dates present, no time of day, start <= end
IntervaloDeDatas(data_inicio, data_fim) ==
    /\ data_inicio # None /\ data_fim # None
    /\ MeiaNoite(data_inicio) /\ MeiaNoite(data_fim)
    /\ data_inicio <= data_fim

CompartilhamDia(data_inicio, data_fim, a) ==
    DiasDoPeriodo(data_inicio, data_fim) \cap DiasDoPeriodo(a.data_inicio, a.data_fim) # {}

\* C9: for a requested period and a record that are both well-formed date
\* intervals the conflict test is true exactly when the two inclusive intervals
\* share a calendar day; when every record is such an interval and the balance
\* suffices, the request is accepted exactly when it shares no day with any record.
C9_ConflitoDiaComum ==
    Validou =>
        LET di == ret.data_inicio
            df == ret.data_fim
            afs == afastamentos
        IN  IntervaloDeDatas(di, df) =>
              /\ \A i \in DOMAIN afs :
                    IntervaloDeDatas(afs[i].data_inicio, afs[i].data_fim) =>
                        (sobreposicao(di, df, afs[i]) <=> CompartilhamDia(di, df, afs[i]))
              /\ ( /\ \A i \in DOMAIN afs : IntervaloDeDatas(afs[i].data_inicio, afs[i].data_fim)
                   /\ DiasSolicitados <= Restantes )
                    => (ret.resultado[1] = ~(\E i \in DOMAIN afs : CompartilhamDia(di, df, afs[i])))

\* an accepted request with an adjacent record: the record starts the day after
\* the request ends
C9_Witness ==
    /\ Validou
    /\ IntervaloDeDatas(ret.data_inicio, ret.data_fim)
    /\ \E i \in DOMAIN afastamentos :
          /\ IntervaloDeDatas(afastamentos[i].data_inicio, afastamentos[i].data_fim)
          /\ OrdinalOf(afastamentos[i].data_inicio) = OrdinalOf(ret.data_fim) + 1
    /\ ret.resultado[1] = TRUE

\* C10: a request that exceeds the remaining balance fails with the
\* insufficient-balance reason citing the remaining and the requested days,
\* also when it overlaps a record and whatever the requested kind.
C10_SaldoAntesDoConflito ==
    (Validou /\ DiasSolicitados > Restantes) =>
        ret.resultado = <<FALSE, <<"apenas dias disponiveis", Restantes, DiasSolicitados>>>>

C10_Witness ==
    /\ Validou
    /\ DiasSolicitados > Restantes
    /\ HaConflito
    /\ ret.tipo # FERIAS
    /\ ret.resultado[2][1] = "apenas dias disponiveis"

(***************************************************************************)
(* The caller obligation of the validator: the employee's records are read,*)
(* validar_ferias decides, and only an accepted request is inserted.       *)
(* SpecSerial runs the three as one step, SpecConcorrente as three steps   *)
(* of concurrent sessions.                                                 *)
(***************************************************************************)
InitSerial ==
    /\ agora = DT(2025, 6, 1, 1)
    /\ funcionarios = FuncionariosDemo
    /\ tabela = <<>>
    /\ proximo_id = 1
    /\ sessao = <<>>
    /\ usuarios = <<>>
    /\ FeriasIdle

\* read, validate and insert without any other write in between
ValidarECriar ==
    /\ proximo_id <= MaxSerial
    /\ \E i \in DOMAIN listar_funcionarios(TRUE), tipo \in TipoAfastamento,
          data_inicio \in DatasFormulario, data_fim \in DatasFormulario :
          LET f == listar_funcionarios(TRUE)[i]
              novo_afastamento ==
                  Afastamento(None, f.id, tipo, Combine(data_inicio), Combine(data_fim))
              lidos == listar_afastamentos_por_funcionario(tabela, f.id)
              resultado ==
                  validar_ferias(f, novo_afastamento.data_inicio, novo_afastamento.data_fim, lidos)
          IN  /\ ret' = [op |-> "validar_e_criar", ok |-> resultado[1]]
              /\ IF resultado[1]
                 THEN /\ tabela' = criar_afastamento(tabela, novo_afastamento)
                      /\ proximo_id' = proximo_id + 1
                 ELSE UNCHANGED <<tabela, proximo_id>>
    /\ UNCHANGED <<agora, funcionario, afastamentos, funcionarios, sessao, usuarios>>

NextSerial == ValidarECriar \/ DeletarAfastamento

SpecSerial == InitSerial /\ [][NextSerial]_vars

Sessoes == 1..MaxSessoes

SessaoIdle ==
    [pc |-> "idle", novo |-> Afastamento(None, None, "", None, None), lidos |-> <<>>]

InitConcorrente ==
    /\ agora = DT(2025, 6, 1, 1)
    /\ funcionarios = FuncionariosDemo
    /\ tabela = <<>>
    /\ proximo_id = 1
    /\ sessao = [s \in Sessoes |-> SessaoIdle]
    /\ usuarios = <<>>
    /\ FeriasIdle

\* the days of the concurrent requests
DatasConcorrentes == { Ordinal(2024, 1, 1), Ordinal(2024, 1, 5) }

\* a session takes its request and reads the employee's records
Ler(s) ==
    /\ sessao[s].pc = "idle"
    /\ \E i \in DOMAIN listar_funcionarios(TRUE), tipo \in TipoAfastamento,
          data_inicio \in DatasConcorrentes, data_fim \in DatasConcorrentes :
          LET f == listar_funcionarios(TRUE)[i]
          IN  sessao' = [sessao EXCEPT ![s] =
                  [pc |-> "validar",
                   novo |-> Afastamento(None, f.id, tipo, Combine(data_inicio), Combine(data_fim)),
                   lidos |-> listar_afastamentos_por_funcionario(tabela, f.id)]]
    /\ UNCHANGED <<agora, funcionario, afastamentos, ret, funcionarios, tabela, proximo_id, usuarios>>

\* the session validates its request against the records it read
Validar(s) ==
    /\ sessao[s].pc = "validar"
    /\ LET novo == sessao[s].novo
           resultado ==
               validar_ferias(obter_funcionario(novo.funcionario_id), novo.data_inicio,
                              novo.data_fim, sessao[s].lidos)
       IN  IF resultado[1]
           THEN sessao' = [sessao EXCEPT ![s].pc = "criar"]
           ELSE sessao' = [sessao EXCEPT ![s].pc = "recusado"]
    /\ UNCHANGED <<agora, funcionario, afastamentos, ret, funcionarios, tabela, proximo_id, usuarios>>

\* the session inserts its accepted request
Criar(s) ==
    /\ sessao[s].pc = "criar"
    /\ tabela' = criar_afastamento(tabela, sessao[s].novo)
    /\ proximo_id' = proximo_id + 1
    /\ sessao' = [sessao EXCEPT ![s].pc = "criado"]
    /\ UNCHANGED <<agora, funcionario, afastamentos, ret, funcionarios, usuarios>>

NextConcorrente == \E s \in Sessoes : Ler(s) \/ Validar(s) \/ Criar(s)

SpecConcorrente == InitConcorrente /\ [][NextConcorrente]_vars

\* two rows of one employee pass the conflict test or share a calendar day
Sobrepostos(a, b) ==
    /\ a.funcionario_id = b.funcionario_id
    /\ \/ ~(a.data_fim < b.data_inicio \/ a.data_inicio > b.data_fim)
       \/ CompartilhamDia(a.data_inicio, a.data_fim, b)

\* C3: when every record is persisted by the atomic read-validate-insert step,
\* no two stored records of one employee overlap.
C3_SerialSemSobreposicao ==
    \A i, j \in DOMAIN tabela : i # j => ~Sobrepostos(tabela[i], tabela[j])

\* three stored rows: two adjacent periods of one employee and a period of the
\* other employee that overlaps one of them
C3_Witness ==
    /\ ret.op = "validar_e_criar"
    /\ \E i, j, k \in DOMAIN tabela :
          /\ tabela[i].funcionario_id = tabela[j].funcionario_id
          /\ OrdinalOf(tabela[j].data_inicio) = OrdinalOf(tabela[i].data_fim) + 1
          /\ tabela[i].data_inicio < tabela[i].data_fim
          /\ tabela[k].funcionario_id # tabela[i].funcionario_id
          /\ CompartilhamDia(tabela[k].data_inicio, tabela[k].data_fim, tabela[i])

\* C4: without serialization a session's request is checked against the
\* records it read only: it is inserted when it conflicts with none of those and
\* fits the balance they leave, so a row that overlaps it and was inserted after
\* the read does not stop the insert, and overlapping rows of one employee can
\* both be persisted.
C4_CorridaComLeituraAntiga ==
    [][\A s \in Sessoes :
          (sessao[s].pc = "criar" /\ sessao'[s].pc = "criado") =>
              LET novo == sessao[s].novo
                  lidos == sessao[s].lidos
                  f == obter_funcionario(novo.funcionario_id)
              IN  /\ novo \in { [tabela'[k] EXCEPT !.id = None] : k \in DOMAIN tabela' }
                  /\ \A k \in DOMAIN lidos : ~Sobrepostos(novo, lidos[k])
                  /\ ((novo.data_fim - novo.data_inicio) \div TicksPerDay) + 1
                        <= calcular_dias_ferias_restantes(f, lidos)
                  /\ \A k \in DOMAIN tabela :
                        Sobrepostos(novo, tabela[k]) => tabela[k].id \notin Ids(lidos)]_vars

\* two rows of one employee that share a calendar day are stored
C4_Witness ==
    \E i, j \in DOMAIN tabela :
        /\ i # j
        /\ tabela[i].funcionario_id = tabela[j].funcionario_id
        /\ tabela[i].data_inicio <= tabela[i].data_fim
        /\ tabela[j].data_inicio <= tabela[j].data_fim
        /\ CompartilhamDia(tabela[i].data_inicio, tabela[i].data_fim, tabela[j])

(***************************************************************************)
(* Validators (src/utils/validators.py): a string is the sequence of its   *)
(* characters                                                              *)
(***************************************************************************)
DigitosAscii == { "0", "1", "2", "3", "4", "5", "6", "7", "8", "9" }

\* the fullwidth digit one: a decimal digit for the pattern \D and for int()
FULLWIDTH_1 == "U+FF11"

\* the characters the pattern \D leaves in place
Digitos == DigitosAscii \cup { FULLWIDTH_1 }

Letras == { "a", "b" }

\* int() of one decimal digit character
int(c) ==
    CASE c = "0" -> 0 [] c = "1" -> 1 [] c = "2" -> 2 [] c = "3" -> 3
      [] c = "4" -> 4 [] c = "5" -> 5 [] c = "6" -> 6 [] c = "7" -> 7
      [] c = "8" -> 8 [] c = "9" -> 9 [] c = FULLWIDTH_1 -> 1

\* re.sub(r'\D', '', s)
re_sub_D(s) == SelectSeq(s, LAMBDA c : c \in Digitos)

\* sum(int(cpf[i]) * (peso - i) for i in range(n)), with cpf[i] at index i + 1
RECURSIVE soma(_, _, _)
soma(cpf, peso, n) ==
    IF n = 0 THEN 0
    ELSE soma(cpf, peso, n - 1) + int(cpf[n]) * (peso - (n - 1))

\* the check digit over the first n digits: 11 - (soma % 11), 0 if that is > 9
digito_verificador(cpf, n) ==
    LET digito == 11 - (soma(cpf, n + 1, n) % 11)
    IN  IF digito > 9 THEN 0 ELSE digito

validar_cpf_sem_digito2(raw) ==
    LET cpf == re_sub_D(raw)
    IN  IF Len(cpf) # 11 THEN FALSE
        ELSE IF \A i \in 1..11 : cpf[i] = cpf[1] THEN FALSE
        ELSE int(cpf[10]) = digito_verificador(cpf, 9)

validar_cpf(raw) ==
    LET cpf == re_sub_D(raw)
    IN  IF Len(cpf) # 11 THEN FALSE
        ELSE IF \A i \in 1..11 : cpf[i] = cpf[1] THEN FALSE
        ELSE IF int(cpf[10]) # digito_verificador(cpf, 9) THEN FALSE
        ELSE IF int(cpf[11]) # digito_verificador(cpf, 10) THEN FALSE
        ELSE TRUE

\* the phone check that accepts 11 digits only
validar_telefone_so_11(raw) == Len(re_sub_D(raw)) = 11

validar_telefone(raw) == Len(re_sub_D(raw)) \in {10, 11}

\* the character classes of the e-mail pattern
LocalChars == Letras \cup DigitosAscii \cup { ".", "_", "%", "+", "-" }
DominioChars == Letras \cup DigitosAscii \cup { ".", "-" }

\* re.match(r'^[a-zA-Z0-9._%+-]+@[a-zA-Z0-9.-]+\.[a-zA-Z]{2,}$', email): "@" at
\* i and the last "." of the match at j; $ also matches before a final newline
validar_email(email) ==
    LET n == IF Len(email) > 0 /\ email[Len(email)] = "\n"
             THEN Len(email) - 1 ELSE Len(email)
    IN  \E i \in 2..n : \E j \in (i + 2)..(n - 2) :
            /\ \A k \in 1..(i - 1) : email[k] \in LocalChars
            /\ email[i] = "@"
            /\ \A k \in (i + 1)..(j - 1) : email[k] \in DominioChars
            /\ email[j] = "."
            /\ \A k \in (j + 1)..n : email[k] \in Letras

(***************************************************************************)
(* Inputs of the Validators calls                                          *)
(***************************************************************************)
Chr(d) == CHOOSE c \in DigitosAscii : int(c) = d

Texto(ds) == [i \in DOMAIN ds |-> Chr(ds[i])]

\* the first nine digits of the national IDs: check digits 25, 11, 00, 19, 09
\* (11 - 1 = 10 becomes 0) and 09 (11 - 0 = 11 becomes 0)
Bases ==
    { Texto(<<5, 2, 9, 9, 8, 2, 2, 4, 7>>), Texto(<<1, 1, 1, 1, 1, 1, 1, 1, 1>>),
      Texto(<<0, 0, 0, 0, 0, 0, 0, 0, 0>>), Texto(<<1, 0, 0, 0, 0, 0, 0, 0, 0>>),
      Texto(<<1, 2, 3, 4, 5, 6, 7, 8, 9>>), Texto(<<0, 1, 0, 0, 0, 0, 0, 0, 1>>) }

\* XXX.XXX.XXX-XX as typed
Pontuado(b, c9, c10) ==
    SubSeq(b, 1, 3) \o <<".">> \o SubSeq(b, 4, 6) \o <<".">> \o SubSeq(b, 7, 9)
        \o <<"-", c9, c10>>

\* 11 digit characters bare and punctuated, 10 and 12 digits, and no digit
Cpfs ==
    { b \o <<c9, c10>> : b \in Bases, c9 \in Digitos, c10 \in Digitos }
    \cup { Pontuado(b, c9, c10) : b \in Bases, c9 \in Digitos, c10 \in Digitos }
    \cup { b \o <<c9>> : b \in Bases, c9 \in Digitos }
    \cup { b \o <<c9, c9, c9>> : b \in Bases, c9 \in Digitos }
    \cup { <<>>, <<".", "-">>, <<"a", "b">> }

Emails ==
    { <<"a", "@", "b", ".", "a", "b">>, <<"a", "@", "b", ".", "a">>,
      <<"a", "b">>, <<"@", "b", ".", "a", "b">>, <<"a", "@", ".", "a", "b">>,
      <<"a", "@", "b", ".", "a", "b", "\n">>, <<"a", " ", "@", "b", ".", "a", "b">>,
      <<"a", "+", "1", "@", "b", "-", "a", ".", "b", ".", "a", "b">>,
      <<"a", "@", "b", ".", "a", "1">>, <<>> }

\* 9 to 12 digits, bare and as (XX) XXXXX-XXXX, and no digit
Telefones ==
    { [i \in 1..n |-> "9"] : n \in 9..12 }
    \cup { <<"(", "1", "1", ")", " ">> \o [i \in 1..n |-> "9"] \o <<"-", "9", "9", "9", "9">>
             : n \in 3..6 }
    \cup { <<>>, <<"a", "b">> }

\* records of a stored history: without dates, with one date, with the end
\* before the start, and well-formed ones
RegistrosDegenerados ==
    { Afastamento(None, 1, FERIAS, p[1], p[2]) :
          p \in { <<None, None>>, <<None, DT(2024, 1, 10, 0)>>, <<DT(2024, 1, 6, 0), None>>,
                  <<DT(2024, 1, 10, 0), DT(2024, 1, 1, 0)>>,
                  <<DT(2024, 1, 1, 0), DT(2024, 1, 10, 0)>> } }
    \cup { Afastamento(None, 1, ATESTADO_MEDICO, DT(2024, 1, 1, 0), DT(2024, 1, 10, 0)) }

HistoricosDegenerados ==
    { <<>> } \cup { <<r>> : r \in RegistrosDegenerados }
    \cup { <<r, q>> : r \in RegistrosDegenerados, q \in RegistrosDegenerados }

\* an employee without hire date or with 17 months of service
InitValidadores ==
    /\ agora = DT(2024, 6, 1, 1)
    /\ funcionario \in { Funcionario(1, None), Funcionario(1, DT(2023, 1, 1, 0)) }
    /\ afastamentos \in HistoricosDegenerados
    /\ ret = [op |-> "none"]
    /\ AppIdle

ValidarCpf ==
    /\ ret.op = "none"
    /\ \E cpf \in Cpfs :
          ret' = [op |-> "validar_cpf", cpf |-> cpf, resultado |-> validar_cpf(cpf)]
    /\ UNCHANGED <<agora, funcionario, afastamentos, funcionarios, tabela, proximo_id, sessao, usuarios>>

ValidarEmail ==
    /\ ret.op = "none"
    /\ \E email \in Emails :
          ret' = [op |-> "validar_email", email |-> email,
                  resultado |-> validar_email(email)]
    /\ UNCHANGED <<agora, funcionario, afastamentos, funcionarios, tabela, proximo_id, sessao, usuarios>>

ValidarTelefone ==
    /\ ret.op = "none"
    /\ \E telefone \in Telefones :
          ret' = [op |-> "validar_telefone", telefone |-> telefone,
                  resultado |-> validar_telefone(telefone)]
    /\ UNCHANGED <<agora, funcionario, afastamentos, funcionarios, tabela, proximo_id, sessao, usuarios>>

NextValidadores ==
    ValidarCpf \/ ValidarEmail \/ ValidarTelefone \/ ValidarFerias \/ DiasAfastamento

SpecValidadores == InitValidadores /\ [][NextValidadores]_vars

(***************************************************************************)
(* Properties of the Validators calls                                      *)
(***************************************************************************)
ValidouCpf == ret.op = "validar_cpf"

\* the weights of the two check digits
Pesos1 == <<10, 9, 8, 7, 6, 5, 4, 3, 2>>
Pesos2 == <<11, 10, 9, 8, 7, 6, 5, 4, 3, 2>>

\* the weighted sum of the leading digits of d, modulo 11
RECURSIVE SomaPonderada(_, _, _)
SomaPonderada(d, pesos, i) ==
    IF i > Len(pesos) THEN 0
    ELSE int(d[i]) * pesos[i] + SomaPonderada(d, pesos, i + 1)

Resto(d, pesos) == SomaPonderada(d, pesos, 1) % 11

\* 11 minus the remainder, 0 when that is above 9
Complemento(d, pesos) ==
    IF 11 - Resto(d, pesos) > 9 THEN 0 ELSE 11 - Resto(d, pesos)

\* the remainder itself, 0 when it is above 9
RestoDireto(d, pesos) ==
    IF Resto(d, pesos) > 9 THEN 0 ELSE Resto(d, pesos)

MesmoCaractere(d) == \A i \in DOMAIN d : d[i] = d[1]

\* C11 (amended): validar_cpf strips the non-digits, requires exactly 11
\* digits, rejects 11 times the same digit character, and accepts iff digits 9
\* and 10 equal the two check digits, each being 11 minus the remainder of the
\* weighted sum mod 11 (weights 10..2 over digits 0..8, 11..2 over digits 0..9),
\* mapped to 0 if that difference is > 9.
C11_ValidarCpf ==
    ValidouCpf =>
        LET d == SelectSeq(ret.cpf, LAMBDA c : c \in Digitos)
        IN  ret.resultado =
                /\ Len(d) = 11
                /\ ~MesmoCaractere(d)
                /\ int(d[10]) = Complemento(d, Pesos1)
                /\ int(d[11]) = Complemento(d, Pesos2)

\* C11 as stated: each check digit is the remainder of the weighted sum mod 11
\* itself, mapped to 0 if it is > 9.
C11_RestoDoSomatorio ==
    ValidouCpf =>
        LET d == SelectSeq(ret.cpf, LAMBDA c : c \in Digitos)
        IN  ret.resultado =
                /\ Len(d) = 11
                /\ ~MesmoCaractere(d)
                /\ int(d[10]) = RestoDireto(d, Pesos1)
                /\ int(d[11]) = RestoDireto(d, Pesos2)

\* 123.456.789-09 is accepted: the first check digit is 11 - 1 = 10, hence 0
C11_Witness ==
    /\ ValidouCpf
    /\ ret.cpf = Pontuado(Texto(<<1, 2, 3, 4, 5, 6, 7, 8, 9>>), "0", "9")
    /\ ret.resultado
    /\ Resto(SelectSeq(ret.cpf, LAMBDA c : c \in Digitos), Pesos1) = 1

\* C12: for every 11-digit national ID that validar_cpf accepts, replacing the
\* check digit at position 9 or 10 by any different digit yields an ID that is
\* rejected; and every string whose 11 digits are all identical is rejected.
C12_TrocaDeDigitoVerificador ==
    ValidouCpf =>
        LET d == SelectSeq(ret.cpf, LAMBDA c : c \in Digitos)
        IN  /\ (ret.resultado /\ Len(d) = 11) =>
                  \A pos \in {10, 11}, c \in Digitos :
                      int(c) # int(d[pos]) => ~validar_cpf([d EXCEPT ![pos] = c])
            /\ (Len(d) = 11 /\ \A i \in 1..11 : int(d[i]) = int(d[1])) =>
                  ~ret.resultado

Motivos13 == { "apenas dias disponiveis", "conflito", "validadas" }

\* C13: on every well-typed input - an employee without hire date, an empty
\* history, records with one or both dates absent, stored records whose end
\* precedes their start, malformed ID, e-mail and phone strings - validar_ferias
\* returns an (ok, reason) pair and each validator returns a boolean; a record
\* with an absent date counts zero days and is skipped by the overlap test, so
\* the result is the one obtained without the undated records.
C13_SempreRetorna ==
    /\ ret.op \in { "validar_cpf", "validar_email", "validar_telefone" } =>
          ret.resultado \in BOOLEAN
    /\ Validou =>
          /\ Len(ret.resultado) = 2
          /\ ret.resultado[1] \in BOOLEAN
          /\ ret.resultado[2][1] \in Motivos13
          /\ ret.resultado = validar_ferias(funcionario, ret.data_inicio, ret.data_fim,
                                            SelectSeq(afastamentos, Datado))
    /\ (ret.op = "dias_afastamento" /\ ~Datado(ret.afastamento)) => ret.dias = 0

\* a request that only a record without start date could overlap is accepted,
\* against a history that also holds a record ending before it starts
C13_Witness ==
    /\ Validou
    /\ ret.resultado[1]
    /\ \E i \in DOMAIN afastamentos :
          /\ afastamentos[i].data_inicio = None
          /\ afastamentos[i].data_fim # None
          /\ ret.data_inicio <= afastamentos[i].data_fim
    /\ \E i \in DOMAIN afastamentos :
          /\ Datado(afastamentos[i])
          /\ afastamentos[i].data_fim < afastamentos[i].data_inicio

\* the orders in which a store may return the records of afs
Permutacoes(afs) ==
    { [i \in DOMAIN afs |-> afs[p[i]]] : p \in Permutations(DOMAIN afs) }

\* C14: the ok result of validar_ferias and the values of
\* calcular_dias_ferias_usados and calcular_dias_ferias_restantes are the same
\* for every permutation of the sequence of existing records.
C14_OrdemIrrelevante ==
    /\ Validou =>
          \A afs \in Permutacoes(afastamentos) :
              validar_ferias(funcionario, ret.data_inicio, ret.data_fim, afs)[1]
                  = ret.resultado[1]
    /\ Relatou =>
          \A afs \in Permutacoes(afastamentos) :
              /\ calcular_dias_ferias_usados(funcionario, afs) = ret.relatorio.dias_usados
              /\ calcular_dias_ferias_restantes(funcionario, afs)
                    = ret.relatorio.dias_restantes

\* a request within the balance is refused for a conflict with the second of
\* two different records and not with the first
C14_Witness ==
    /\ Validou
    /\ Len(afastamentos) = 2
    /\ afastamentos[1] # afastamentos[2]
    /\ ~ret.resultado[1]
    /\ ret.resultado[2][1] = "conflito"
    /\ ~(Datado(afastamentos[1])
         /\ sobreposicao(ret.data_inicio, ret.data_fim, afastamentos[1]))
    /\ Datado(afastamentos[2])
    /\ sobreposicao(ret.data_inicio, ret.data_fim, afastamentos[2])

(***************************************************************************)
(* Repeated calls of the FeriasManager while the system clock advances:    *)
(* ret.lista keeps the calls made, each with the reading of datetime.now() *)
(***************************************************************************)
MaxChamadas == 2

\* readings of datetime.now(): two in December 2024 and two in January 2025
Instantes ==
    { DT(2024, 12, 15, 1), DT(2024, 12, 20, 0), DT(2025, 1, 2, 0), DT(2025, 1, 20, 1) }

InitRelogio ==
    /\ agora \in Instantes
    /\ funcionario \in { Funcionario(1, None), Funcionario(1, DT(2024, 1, 15, 0)),
                         Funcionario(1, DT(2023, 1, 15, 0)) }
    /\ afastamentos \in { <<>>,
                          << Afastamento(None, 1, FERIAS, DT(2024, 1, 1, 0), DT(2024, 1, 10, 0)) >> }
    /\ ret = [op |-> "chamadas", lista |-> <<>>]
    /\ AppIdle

\* time passes between two calls
Relogio ==
    /\ \E t \in Instantes : t > agora /\ agora' = t
    /\ UNCHANGED <<funcionario, afastamentos, ret, funcionarios, tabela, proximo_id, sessao, usuarios>>

ChamarValidarFerias ==
    /\ Len(ret.lista) < MaxChamadas
    /\ \E data_inicio \in { DT(2024, 1, 11, 0) }, data_fim \in { DT(2024, 1, 20, 0), DT(2024, 2, 20, 0) } :
          ret' = [ret EXCEPT !.lista = Append(@,
                    [fn |-> "validar_ferias", agora |-> agora,
                     args |-> <<funcionario, data_inicio, data_fim, afastamentos>>,
                     resultado |-> validar_ferias(funcionario, data_inicio, data_fim,
                                                  afastamentos)])]
    /\ UNCHANGED <<agora, funcionario, afastamentos, funcionarios, tabela, proximo_id, sessao, usuarios>>

ChamarRelatorio ==
    /\ Len(ret.lista) < MaxChamadas
    /\ ret' = [ret EXCEPT !.lista = Append(@,
                 [fn |-> "gerar_relatorio_ferias", agora |-> agora,
                  args |-> <<funcionario, afastamentos>>,
                  resultado |-> gerar_relatorio_ferias(funcionario, afastamentos)])]
    /\ UNCHANGED <<agora, funcionario, afastamentos, funcionarios, tabela, proximo_id, sessao, usuarios>>

NextRelogio == Relogio \/ ChamarValidarFerias \/ ChamarRelatorio

SpecRelogio == InitRelogio /\ [][NextRelogio]_vars

\* two calls of one function with identical arguments
MesmaChamada(a, b) == a.fn = b.fn /\ a.args = b.args

MesmoMes(a, b) ==
    YearOf(a.agora) = YearOf(b.agora) /\ MonthOf(a.agora) = MonthOf(b.agora)

Escritos == { tabela'[i] : i \in { j \in DOMAIN tabela' :
                                      tabela'[j] \notin { tabela[k] : k \in DOMAIN tabela } } }

\* C16: every leave record created or edited through the submission forms has
\* end date >= start date; a create or edit submission answered with the date
\* error (end before start) leaves the record store unchanged.
C16_FimNaoPrecedeInicio ==
    [][/\ \A a \in Escritos : a.data_inicio <= a.data_fim
       /\ (ret'.op \in { "novo_afastamento", "editar_afastamento" } /\ ret'.erro = "datas")
             => UNCHANGED <<tabela, proximo_id>>]_vars

\* an edit with the end before the start was refused on a table whose rows
\* were all created through the form
C16_Witness ==
    /\ ret.op = "editar_afastamento"
    /\ ret.erro = "datas"
    /\ Len(tabela) = 2
    /\ \E i \in DOMAIN tabela : tabela[i].data_inicio < tabela[i].data_fim

(***************************************************************************)
(* The funcionarios table of DatabaseSQL and the employee forms: the table *)
(* is the sequence of its rows in rowid order; no row is ever removed, so  *)
(* AUTOINCREMENT gives the next row the identifier Len + 1                 *)
(***************************************************************************)
MaxFuncionarios == 3

\* INSERT: cpf TEXT UNIQUE compares the stored strings of all rows; a
\* violation raises sqlite3.IntegrityError and the table stays as it is
criar_funcionario(tab, f) ==
    IF \E i \in DOMAIN tab : tab[i].cpf = f.cpf
    THEN tab
    ELSE Append(tab, [f EXCEPT !.id = Len(tab) + 1, !.data_atualizacao = agora])

\* the update without its WHERE clause
atualizar_funcionario_sem_where(tab, f) ==
    [i \in DOMAIN tab |->
        [tab[i] EXCEPT !.nome = f.nome, !.email = f.email, !.telefone = f.telefone,
                       !.endereco = f.endereco, !.loja = f.loja, !.cargo = f.cargo,
                       !.salario = f.salario, !.data_atualizacao = agora]]

\* UPDATE funcionarios SET nome, email, telefone, endereco, loja, cargo, salario,
\* data_atualizacao = CURRENT_TIMESTAMP WHERE id = ?
atualizar_funcionario(tab, f) ==
    [i \in DOMAIN tab |->
        IF tab[i].id = f.id
        THEN [tab[i] EXCEPT !.nome = f.nome, !.email = f.email, !.telefone = f.telefone,
                            !.endereco = f.endereco, !.loja = f.loja, !.cargo = f.cargo,
                            !.salario = f.salario, !.data_atualizacao = agora]
        ELSE tab[i]]

\* the delete of every row
deletar_funcionario_sem_where(tab, funcionario_id) ==
    [i \in DOMAIN tab |-> [tab[i] EXCEPT !.ativo = FALSE, !.data_atualizacao = agora]]

\* UPDATE funcionarios SET ativo = 0, data_atualizacao = CURRENT_TIMESTAMP WHERE id = ?
deletar_funcionario(tab, funcionario_id) ==
    [i \in DOMAIN tab |->
        IF tab[i].id = funcionario_id
        THEN [tab[i] EXCEPT !.ativo = FALSE, !.data_atualizacao = agora]
        ELSE tab[i]]

\* SELECT * FROM funcionarios WHERE cpf = ? AND ativo = 1
obter_funcionario_por_cpf(tab, cpf) ==
    IF \E i \in DOMAIN tab : tab[i].cpf = cpf /\ tab[i].ativo
    THEN tab[CHOOSE i \in DOMAIN tab : tab[i].cpf = cpf /\ tab[i].ativo]
    ELSE Ausente

\* the fields the employee forms offer, as two fillings
Preenchimentos ==
    { [nome |-> "Ana", email |-> <<"a", "@", "b", ".", "a", "b">>,
       telefone |-> [i \in 1..10 |-> "9"], endereco |-> "Rua A", loja |-> "Loja 1",
       cargo |-> "Vendedor", salario |-> 1000],
      [nome |-> "Bia", email |-> <<"b", "@", "b", ".", "a", "b">>,
       telefone |-> [i \in 1..11 |-> "9"], endereco |-> "Rua B", loja |-> "Loja 2",
       cargo |-> "Gerente", salario |-> 2000] }

CPF_A == Texto(<<5, 2, 9, 9, 8, 2, 2, 4, 7, 2, 5>>)

\* the national IDs typed: one ID bare and punctuated, a second ID, eleven
\* ones, and nothing
CpfsFormulario ==
    { CPF_A, Pontuado(SubSeq(CPF_A, 1, 9), "2", "5"),
      Texto(<<1, 2, 3, 4, 5, 6, 7, 8, 9, 0, 9>>), [i \in 1..11 |-> "1"], <<>> }

\* Funcionario(nome=..., cpf=..., ..., data_admissao=...), ativo True by default
NovoFuncionario(p, cpf, data_admissao) ==
    [id |-> None, nome |-> p.nome, cpf |-> cpf, email |-> p.email,
     telefone |-> p.telefone, endereco |-> p.endereco, loja |-> p.loja,
     data_admissao |-> data_admissao, cargo |-> p.cargo, salario |-> p.salario,
     ativo |-> TRUE, data_atualizacao |-> None]

\* the table as init_db.py leaves it, here with one employee created 30 days
\* before, and a vacation record of that employee
InitFuncionarios ==
    /\ agora = DT(2024, 6, 1, 1)
    /\ funcionarios =
          << [NovoFuncionario(CHOOSE p \in Preenchimentos : p.nome = "Ana", CPF_A,
                              DT(2023, 1, 1, 0))
                EXCEPT !.id = 1, !.data_atualizacao = PlusDays(DT(2024, 6, 1, 1), 0 - 30)] >>
    /\ tabela = AfastamentosDemo
    /\ proximo_id = 2
    /\ sessao = <<>>
    /\ usuarios = <<>>
    /\ FeriasIdle

\* form_novo_funcionario of the dashboard: the required fields, then the insert
SubmitNovoFuncionario ==
    /\ Len(funcionarios) < MaxFuncionarios
    /\ \E p \in Preenchimentos, cpf \in CpfsFormulario :
          LET novo_funcionario == NovoFuncionario(p, cpf, Combine(Ordinal(2024, 1, 5)))
          IN  IF cpf = <<>>
              THEN /\ ret' = [op |-> "novo_funcionario", erro |-> "campos"]
                   /\ UNCHANGED funcionarios
              ELSE /\ funcionarios' = criar_funcionario(funcionarios, novo_funcionario)
                   /\ ret' = [op |-> "novo_funcionario",
                              erro |-> IF funcionarios' = funcionarios
                                       THEN "IntegrityError" ELSE "nenhum"]
    /\ UNCHANGED <<agora, funcionario, afastamentos, tabela, proximo_id, sessao, usuarios>>

\* form_novo_funcionario of app.py: the required fields, the three validators,
\* the lookup of the typed national ID among the active employees, the insert
SubmitNovoFuncionarioApp ==
    /\ Len(funcionarios) < MaxFuncionarios
    /\ \E p \in Preenchimentos, cpf \in CpfsFormulario :
          LET novo_funcionario == NovoFuncionario(p, cpf, Combine(Ordinal(2024, 1, 5)))
              erro == IF cpf = <<>> THEN "campos"
                      ELSE IF ~validar_cpf(cpf) THEN "cpf"
                      ELSE IF ~validar_email(p.email) THEN "email"
                      ELSE IF ~validar_telefone(p.telefone) THEN "telefone"
                      ELSE IF obter_funcionario_por_cpf(funcionarios, cpf) # Ausente
                      THEN "cpf cadastrado"
                      ELSE "nenhum"
          IN  IF erro # "nenhum"
              THEN /\ ret' = [op |-> "novo_funcionario_app", erro |-> erro]
                   /\ UNCHANGED funcionarios
              ELSE /\ funcionarios' = criar_funcionario(funcionarios, novo_funcionario)
                   /\ ret' = [op |-> "novo_funcionario_app",
                              erro |-> IF funcionarios' = funcionarios
                                       THEN "IntegrityError" ELSE "nenhum"]
    /\ UNCHANGED <<agora, funcionario, afastamentos, tabela, proximo_id, sessao, usuarios>>

\* form_editar_funcionario: the selected active employee with the seven
\* fields of the form
SubmitEditarFuncionario ==
    /\ \E i \in DOMAIN listar_funcionarios(TRUE), p \in Preenchimentos :
          LET funcionario_selecionado ==
                  [listar_funcionarios(TRUE)[i] EXCEPT
                      !.nome = p.nome, !.email = p.email, !.telefone = p.telefone,
                      !.endereco = p.endereco, !.loja = p.loja, !.cargo = p.cargo,
                      !.salario = p.salario]
          IN  /\ funcionarios' = atualizar_funcionario(funcionarios, funcionario_selecionado)
              /\ ret' = [op |-> "editar_funcionario", id |-> funcionario_selecionado.id]
    /\ UNCHANGED <<agora, funcionario, afastamentos, tabela, proximo_id, sessao, usuarios>>

\* the delete button for the selected active employee
DeletarFuncionario ==
    /\ \E i \in DOMAIN listar_funcionarios(TRUE) :
          LET funcionario_selecionado == listar_funcionarios(TRUE)[i]
          IN  /\ funcionarios' = deletar_funcionario(funcionarios, funcionario_selecionado.id)
              /\ ret' = [op |-> "deletar_funcionario", id |-> funcionario_selecionado.id]
    /\ UNCHANGED <<agora, funcionario, afastamentos, tabela, proximo_id, sessao, usuarios>>

NextFuncionarios ==
    \/ SubmitNovoFuncionario
    \/ SubmitNovoFuncionarioApp
    \/ SubmitEditarFuncionario
    \/ DeletarFuncionario

SpecFuncionarios == InitFuncionarios /\ [][NextFuncionarios]_vars

\* the active rows of the funcionarios table
Ativos == { i \in DOMAIN funcionarios : funcionarios[i].ativo }

\* C17: after any sequence of employee create, update and soft-delete
\* operations no two active employees have the same national ID, that is the
\* same 11 digits whatever punctuation was typed.
C17_CpfUnicoEntreAtivos ==
    \A i, j \in Ativos :
        i # j => re_sub_D(funcionarios[i].cpf) # re_sub_D(funcionarios[j].cpf)

\* C18: updating an employee changes only name, email, phone, address, store,
\* job title, salary and update timestamp of that employee: its hire date,
\* national ID, active flag and identifier are unchanged and every other
\* employee record is unchanged; no operation of the store alters the hire date
\* (or the identifier) of an existing employee.
C18_AtualizarSoOsCamposDoFormulario ==
    [][/\ Len(funcionarios') >= Len(funcionarios)
       /\ \A i \in DOMAIN funcionarios :
             /\ funcionarios'[i].id = funcionarios[i].id
             /\ funcionarios'[i].data_admissao = funcionarios[i].data_admissao
       /\ ret'.op = "editar_funcionario" =>
             /\ Len(funcionarios') = Len(funcionarios)
             /\ \A i \in DOMAIN funcionarios :
                   IF funcionarios[i].id = ret'.id
                   THEN /\ funcionarios'[i].cpf = funcionarios[i].cpf
                        /\ funcionarios'[i].ativo = funcionarios[i].ativo
                   ELSE funcionarios'[i] = funcionarios[i]]_vars

\* the first employee was renamed and carries the new update timestamp, next
\* to another employee with different field values
C18_Witness ==
    /\ ret.op = "editar_funcionario"
    /\ ret.id = 1
    /\ Len(funcionarios) >= 2
    /\ funcionarios[1].nome = "Bia"
    /\ funcionarios[1].data_atualizacao = agora
    /\ funcionarios[1].cpf = CPF_A
    /\ funcionarios[2].nome = "Ana"

\* the step is the soft delete of the employee with the identifier
Deletou(funcionario_id) == ret'.op = "deletar_funcionario" /\ ret'.id = funcionario_id

\* C19 (amended): deleting an employee is a soft delete: it clears the active
\* flag of that employee and sets its update timestamp, and changes nothing
\* else. Afterwards the employee is still returned by lookup by identifier (as
\* inactive), is omitted from the active-only listing, and listing its leave
\* records returns exactly the records it returned before the delete.
C19_SoftDelete ==
    [][\A k \in DOMAIN funcionarios :
          Deletou(funcionarios[k].id) =>
              LET id == funcionarios[k].id
              IN  /\ funcionarios' = [funcionarios EXCEPT ![k].ativo = FALSE,
                                                          ![k].data_atualizacao = agora]
                  /\ obter_funcionario(id)' = funcionarios'[k]
                  /\ ~obter_funcionario(id)'.ativo
                  /\ \A i \in DOMAIN listar_funcionarios(TRUE)' :
                        listar_funcionarios(TRUE)'[i].id # id
                  /\ \A i \in DOMAIN funcionarios :
                        (i # k /\ funcionarios[i].ativo) =>
                            \E j \in DOMAIN listar_funcionarios(TRUE)' :
                                listar_funcionarios(TRUE)'[j] = funcionarios[i]
                  /\ listar_afastamentos_por_funcionario(tabela, id)'
                        = listar_afastamentos_por_funcionario(tabela, id)]_vars

\* C19: deleting an employee only clears the active flag of that employee.
C19_SoLimpaAtivo ==
    [][\A k \in DOMAIN funcionarios :
          Deletou(funcionarios[k].id) =>
              funcionarios' = [funcionarios EXCEPT ![k].ativo = FALSE]]_vars

\* the employee who has a leave record was deleted and another one is active
C19_Witness ==
    /\ ret.op = "deletar_funcionario"
    /\ ret.id = 1
    /\ ~funcionarios[1].ativo
    /\ listar_afastamentos_por_funcionario(tabela, 1) # <<>>
    /\ listar_funcionarios(TRUE) # <<>>

(***************************************************************************)
(* The usuarios table of DatabaseSQL and AuthManager (src/utils/auth.py):  *)
(* the table is the sequence of its rows in rowid order; no row is ever    *)
(* removed, so AUTOINCREMENT gives the next row the identifier Len + 1     *)
(***************************************************************************)
MaxUsuarios == 3

ADMIN == "Administrador"
FUNCIONARIO == "Funcionario"

\* Usuario.hash_senha: the SHA-256 digest of the password
hash_senha(senha) == <<"sha256", senha>>

\* INSERT: email TEXT UNIQUE and username TEXT UNIQUE compare with all rows; a
\* violation raises sqlite3.IntegrityError and the table stays as it is
criar_usuario(tab, usuario) ==
    IF \E i \in DOMAIN tab : tab[i].email = usuario.email \/ tab[i].username = usuario.username
    THEN tab
    ELSE Append(tab, [usuario EXCEPT !.id = Len(tab) + 1, !.data_atualizacao = agora])

\* the lookup that finds nobody
obter_usuario_por_username_nenhum(tab, username) == Ausente

\* SELECT * FROM usuarios WHERE username = ? AND ativo = 1
obter_usuario_por_username(tab, username) ==
    IF \E i \in DOMAIN tab : tab[i].username = username /\ tab[i].ativo
    THEN tab[CHOOSE i \in DOMAIN tab : tab[i].username = username /\ tab[i].ativo]
    ELSE Ausente

\* SELECT * FROM usuarios WHERE email = ? AND ativo = 1
obter_usuario_por_email(tab, email) ==
    IF \E i \in DOMAIN tab : tab[i].email = email /\ tab[i].ativo
    THEN tab[CHOOSE i \in DOMAIN tab : tab[i].email = email /\ tab[i].ativo]
    ELSE Ausente

\* UPDATE usuarios SET nome, email, perfil, senha_hash, ultimo_acesso,
\* data_atualizacao = CURRENT_TIMESTAMP WHERE id = ?; email TEXT UNIQUE raises
\* sqlite3.IntegrityError when another row holds the e-mail
atualizar_usuario(tab, usuario) ==
    IF \E i \in DOMAIN tab : tab[i].id # usuario.id /\ tab[i].email = usuario.email
    THEN tab
    ELSE [i \in DOMAIN tab |->
             IF tab[i].id = usuario.id
             THEN [tab[i] EXCEPT !.nome = usuario.nome, !.email = usuario.email,
                                 !.perfil = usuario.perfil,
                                 !.senha_hash = usuario.senha_hash,
                                 !.ultimo_acesso = usuario.ultimo_acesso,
                                 !.data_atualizacao = agora]
             ELSE tab[i]]

\* UPDATE usuarios SET ativo = 0, data_atualizacao = CURRENT_TIMESTAMP WHERE id = ?
deletar_usuario(tab, usuario_id) ==
    [i \in DOMAIN tab |->
        IF tab[i].id = usuario_id
        THEN [tab[i] EXCEPT !.ativo = FALSE, !.data_atualizacao = agora]
        ELSE tab[i]]

Usernames == { "admin", "ana", "bia" }
EmailsUsuario == { "admin@rh", "ana@rh", "bia@rh" }
Perfis == { ADMIN, FUNCIONARIO }

\* Usuario(nome=..., email=..., username=..., perfil=..., ativo=True) after
\* definir_senha(senha)
NovoUsuario(nome, email, username, senha, perfil) ==
    [id |-> None, nome |-> nome, email |-> email, username |-> username,
     senha_hash |-> hash_senha(senha), perfil |-> perfil, ativo |-> TRUE,
     data_atualizacao |-> None, ultimo_acesso |-> None]

\* init_db.py: the administrator exists
InitUsuarios ==
    /\ agora = DT(2024, 6, 1, 1)
    /\ usuarios = << [NovoUsuario("Administrador", "admin@rh", "admin", "admin123", ADMIN)
                        EXCEPT !.id = 1, !.data_atualizacao = PlusDays(DT(2024, 6, 1, 1), 0 - 30)] >>
    /\ funcionarios = <<>>
    /\ tabela = <<>>
    /\ proximo_id = 1
    /\ sessao = <<>>
    /\ FeriasIdle

\* AuthManager.criar_usuario
AuthCriarUsuario ==
    /\ Len(usuarios) < MaxUsuarios
    /\ \E email \in EmailsUsuario, username \in Usernames, perfil \in Perfis :
          LET usuario == NovoUsuario("Nome", email, username, "senha", perfil)
          IN  IF obter_usuario_por_username(usuarios, username) # Ausente
                 \/ obter_usuario_por_email(usuarios, email) # Ausente
              THEN /\ ret' = [op |-> "criar_usuario", email |-> email,
                              username |-> username, resultado |-> "None"]
                   /\ UNCHANGED usuarios
              ELSE /\ usuarios' = criar_usuario(usuarios, usuario)
                   /\ ret' = [op |-> "criar_usuario", email |-> email,
                              username |-> username,
                              resultado |-> IF usuarios' = usuarios
                                            THEN "IntegrityError" ELSE "Usuario"]
    /\ UNCHANGED <<agora, funcionario, afastamentos, funcionarios, tabela, proximo_id, sessao>>

\* AuthManager.atualizar_usuario with a user obtained from the table and
\* given another e-mail and profile
AuthAtualizarUsuario ==
    /\ \E k \in DOMAIN usuarios, email \in EmailsUsuario, perfil \in Perfis :
          LET usuario == [usuarios[k] EXCEPT !.email = email, !.perfil = perfil,
                                             !.data_atualizacao = agora]
          IN  /\ usuarios' = atualizar_usuario(usuarios, usuario)
              /\ ret' = [op |-> "atualizar_usuario", id |-> usuario.id,
                         resultado |-> IF usuarios[k].email # email /\ usuarios' = usuarios
                                       THEN "IntegrityError" ELSE "True"]
    /\ UNCHANGED <<agora, funcionario, afastamentos, funcionarios, tabela, proximo_id, sessao>>

\* AuthManager.deletar_usuario
AuthDeletarUsuario ==
    /\ \E k \in DOMAIN usuarios :
          /\ usuarios' = deletar_usuario(usuarios, usuarios[k].id)
          /\ ret' = [op |-> "deletar_usuario", id |-> usuarios[k].id, resultado |-> "True"]
    /\ UNCHANGED <<agora, funcionario, afastamentos, funcionarios, tabela, proximo_id, sessao>>

NextUsuarios == AuthCriarUsuario \/ AuthAtualizarUsuario \/ AuthDeletarUsuario

SpecUsuarios == InitUsuarios /\ [][NextUsuarios]_vars

UsuariosAtivos == { i \in DOMAIN usuarios : usuarios[i].ativo }

\* C20: after any sequence of AuthManager.criar_usuario, atualizar_usuario
\* and deletar_usuario no two active users share a username and no two active
\* users share an e-mail; criar_usuario with a username or e-mail already held
\* by an active user returns None and creates no record.
C20_UsernameEmailUnicos ==
    /\ [](\A i, j \in UsuariosAtivos :
             i # j => /\ usuarios[i].username # usuarios[j].username
                      /\ usuarios[i].email # usuarios[j].email)
    /\ [][(/\ ret'.op = "criar_usuario"
           /\ \E i \in UsuariosAtivos :
                 usuarios[i].username = ret'.username \/ usuarios[i].email = ret'.email)
          => (ret'.resultado = "None" /\ UNCHANGED usuarios)]_vars

\* criar_usuario returned None for the e-mail an active user took over through
\* atualizar_usuario, next to a second active user
C20_Witness ==
    /\ ret.op = "criar_usuario"
    /\ ret.resultado = "None"
    /\ ret.email = "ana@rh"
    /\ ret.username = "ana"
    /\ \E i \in UsuariosAtivos : usuarios[i].email = "ana@rh" /\ usuarios[i].username = "admin"
    /\ Cardinality(UsuariosAtivos) >= 2

(***************************************************************************)
(* Access control: Usuario.tem_permissao (src/models/usuario.py) and       *)
(* AuthManager.autenticar, verificar_permissao and redefinir_senha         *)
(* (src/utils/auth.py) over the usuarios table                             *)
(***************************************************************************)
GERENTE == "Gerente"
RH == "Recursos Humanos"

\* the action tags of the permission table and one tag that is in no list
Acoes ==
    { "criar_usuario", "editar_usuario", "deletar_usuario",
      "criar_funcionario", "editar_funcionario", "deletar_funcionario",
      "criar_afastamento", "editar_afastamento", "deletar_afastamento",
      "gerar_relatorio", "exportar_dados", "backup", "configuracoes",
      "visualizar_dados_pessoais", "solicitar_afastamento", "outra_acao" }

\* the four role tags of PerfilUsuario and one tag outside them
PerfisTag == { ADMIN, GERENTE, RH, FUNCIONARIO, "Visitante" }

\* the table that grants every action to every role
permissoes_todas(perfil) == Acoes

\* the dict permissoes of tem_permissao with permissoes.get(perfil, [])
permissoes(perfil) ==
    CASE perfil = ADMIN ->
           { "criar_usuario", "editar_usuario", "deletar_usuario",
             "criar_funcionario", "editar_funcionario", "deletar_funcionario",
             "criar_afastamento", "editar_afastamento", "deletar_afastamento",
             "gerar_relatorio", "exportar_dados", "backup", "configuracoes" }
      [] perfil = GERENTE ->
           { "criar_funcionario", "editar_funcionario",
             "criar_afastamento", "editar_afastamento",
             "gerar_relatorio", "exportar_dados" }
      [] perfil = RH ->
           { "criar_funcionario", "editar_funcionario", "deletar_funcionario",
             "criar_afastamento", "editar_afastamento", "deletar_afastamento",
             "gerar_relatorio", "exportar_dados" }
      [] perfil = FUNCIONARIO ->
           { "visualizar_dados_pessoais", "solicitar_afastamento" }
      [] OTHER -> {}

\* Usuario.tem_permissao
tem_permissao(self, acao) == acao \in permissoes(self.perfil)

\* AuthManager.verificar_permissao
verificar_permissao(usuario, acao) ==
    IF usuario = Ausente \/ ~usuario.ativo THEN FALSE ELSE tem_permissao(usuario, acao)

\* the password check that accepts every password
verificar_senha_qualquer(self, senha) == TRUE

\* Usuario.verificar_senha
verificar_senha(self, senha) == self.senha_hash = hash_senha(senha)

\* SELECT * FROM usuarios WHERE id = ?
obter_usuario(tab, usuario_id) ==
    IF \E i \in DOMAIN tab : tab[i].id = usuario_id
    THEN tab[CHOOSE i \in DOMAIN tab : tab[i].id = usuario_id]
    ELSE Ausente

Senhas == { "admin123", "senha" }

\* AuthManager.verificar_permissao for a user of the table, or for a Usuario
\* object given any role tag, or for no user
VerificarPermissao ==
    /\ \E k \in DOMAIN usuarios \cup {0}, perfil \in PerfisTag, acao \in Acoes :
          LET usuario == IF k = 0 THEN Ausente ELSE [usuarios[k] EXCEPT !.perfil = perfil]
          IN  /\ k = 0 => perfil = ADMIN
              /\ ret' = [op |-> "verificar_permissao", usuario |-> k # 0,
                         perfil |-> perfil, ativo |-> k # 0 /\ usuario.ativo, acao |-> acao,
                         tem_permissao |-> IF k = 0 THEN FALSE ELSE tem_permissao(usuario, acao),
                         resultado |-> verificar_permissao(usuario, acao)]
    /\ UNCHANGED <<agora, funcionario, afastamentos, funcionarios, tabela, proximo_id, sessao,
                   usuarios>>

\* AuthManager.autenticar
Autenticar ==
    /\ \E username \in Usernames, senha \in Senhas :
          LET usuario == obter_usuario_por_username(usuarios, username)
          IN  IF usuario # Ausente /\ usuario.ativo /\ verificar_senha(usuario, senha)
              THEN /\ usuarios' = atualizar_usuario(usuarios,
                                     [usuario EXCEPT !.ultimo_acesso = agora])
                   /\ ret' = [op |-> "autenticar", username |-> username, senha |-> senha,
                              resultado |-> usuario.id]
              ELSE /\ ret' = [op |-> "autenticar", username |-> username, senha |-> senha,
                              resultado |-> None]
                   /\ UNCHANGED usuarios
    /\ UNCHANGED <<agora, funcionario, afastamentos, funcionarios, tabela, proximo_id, sessao>>

\* AuthManager.redefinir_senha
AuthRedefinirSenha ==
    /\ \E usuario_id \in 1..MaxUsuarios, nova_senha \in Senhas :
          LET usuario == obter_usuario(usuarios, usuario_id)
          IN  IF usuario = Ausente
              THEN /\ ret' = [op |-> "redefinir_senha", id |-> usuario_id, resultado |-> FALSE]
                   /\ UNCHANGED usuarios
              ELSE /\ usuarios' = atualizar_usuario(usuarios,
                                     [usuario EXCEPT !.senha_hash = hash_senha(nova_senha),
                                                     !.data_atualizacao = agora])
                   /\ ret' = [op |-> "redefinir_senha", id |-> usuario_id, resultado |-> TRUE]
    /\ UNCHANGED <<agora, funcionario, afastamentos, funcionarios, tabela, proximo_id, sessao>>

NextPermissoes == AuthCriarUsuario \/ AuthDeletarUsuario \/ VerificarPermissao

SpecPermissoes == InitUsuarios /\ [][NextPermissoes]_vars

NextAuth == AuthCriarUsuario \/ AuthDeletarUsuario \/ AuthRedefinirSenha \/ Autenticar

SpecAuth == InitUsuarios /\ [][NextAuth]_vars

\* the actions on users, on employees and on leave records
DeUsuario == { "criar_usuario", "editar_usuario", "deletar_usuario" }
DeFuncionario == { "criar_funcionario", "editar_funcionario", "deletar_funcionario" }
DeAfastamento == { "criar_afastamento", "editar_afastamento", "deletar_afastamento" }
Deletar == { "deletar_usuario", "deletar_funcionario", "deletar_afastamento" }

\* what the role tag holds
Concede(perfil, acao) ==
    \/ /\ perfil = ADMIN
       /\ acao \in DeUsuario \cup DeFuncionario \cup DeAfastamento
                    \cup { "gerar_relatorio", "exportar_dados", "backup", "configuracoes" }
    \/ /\ perfil = GERENTE
       /\ acao \in ((DeFuncionario \cup DeAfastamento) \ Deletar)
                    \cup { "gerar_relatorio", "exportar_dados" }
    \/ /\ perfil = RH
       /\ acao \in DeFuncionario \cup DeAfastamento \cup { "gerar_relatorio", "exportar_dados" }
    \/ /\ perfil = FUNCIONARIO
       /\ acao \in { "visualizar_dados_pessoais", "solicitar_afastamento" }

\* C21: tem_permissao(action) is a lookup in a fixed table keyed by the role
\* tag alone: Administrator holds the user, employee, leave, report, export,
\* backup and settings actions; Manager create/edit of employees and leave,
\* report and export; HR create/edit/delete of employees and leave, report
\* and export; Employee only viewing own data and requesting leave; any other
\* role tag nothing.  The answer is the same in every state of the user table.
C21_TabelaDePermissoes ==
    (ret.op = "verificar_permissao" /\ ret.usuario) =>
        /\ ret.tem_permissao = Concede(ret.perfil, ret.acao)
        /\ ret.resultado = (ret.ativo /\ Concede(ret.perfil, ret.acao))

\* a Manager was refused the deletion of an employee after the user table
\* had changed
C21_Witness ==
    /\ ret.op = "verificar_permissao"
    /\ ret.usuario
    /\ ret.perfil = GERENTE
    /\ ret.ativo
    /\ ret.acao = "deletar_funcionario"
    /\ ~ret.tem_permissao
    /\ Len(usuarios) > 1

(***************************************************************************)
(* The next eligibility date: obter_proxima_data_ferias is called, the     *)
(* clock reaches the date it returned, and the entitlement is evaluated    *)
(* on that date                                                            *)
(***************************************************************************)
\* hire dates on the first days, the middle and the end of every month
AdmissoesProxima ==
    {None} \cup { DT(y, m, d, 0) : y \in 2023..2024, m \in 1..12, d \in {1, 3, 6, 15, 28} }

InitProxima ==
    /\ \E h \in AdmissoesProxima : funcionario = Funcionario(1, h)
    /\ agora \in Agoras
    /\ afastamentos = <<>>
    /\ ret = [op |-> "none"]
    /\ AppIdle

\* a caller evaluates obter_proxima_data_ferias
ObterProximaData ==
    /\ ret.op = "none"
    /\ ret' = [op |-> "obter_proxima_data_ferias", chamada_em |-> agora,
               proxima_data |-> obter_proxima_data_ferias(funcionario),
               dias_disponiveis |-> None]
    /\ UNCHANGED <<agora, funcionario, afastamentos, funcionarios, tabela, proximo_id, sessao, usuarios>>

\* the system clock reads the returned date
ChegarProximaData ==
    /\ ret.op = "obter_proxima_data_ferias"
    /\ ret.proxima_data # None
    /\ agora' = ret.proxima_data
    /\ ret' = [ret EXCEPT !.op = "proxima_data"]
    /\ UNCHANGED <<funcionario, afastamentos, funcionarios, tabela, proximo_id, sessao, usuarios>>

\* calcular_dias_ferias_disponiveis is evaluated on the returned date
AvaliarNaProximaData ==
    /\ ret.op = "proxima_data"
    /\ ret' = [ret EXCEPT !.op = "avaliado",
                          !.dias_disponiveis = calcular_dias_ferias_disponiveis(funcionario)]
    /\ UNCHANGED <<agora, funcionario, afastamentos, funcionarios, tabela, proximo_id, sessao, usuarios>>

NextProxima == ObterProximaData \/ ChegarProximaData \/ AvaliarNaProximaData

SpecProxima == InitProxima /\ [][NextProxima]_vars

\* elapsed months (b.year - a.year)*12 + (b.month - a.month)
MesesEntre(a, b) ==
    (AnoDoDia[b \div TicksPerDay] - AnoDoDia[a \div TicksPerDay]) * 12
        + (MesDoDia[b \div TicksPerDay] - MesDoDia[a \div TicksPerDay])

\* C22: obter_proxima_data_ferias returns none when the employee has no hire
\* date, the evaluation date itself when the elapsed months reach the
\* threshold, and otherwise the hire date plus threshold * 30 days.
C22_ProximaData ==
    ret.op = "obter_proxima_data_ferias" =>
        LET h == funcionario.data_admissao
        IN  ret.proxima_data =
               (IF h = None THEN None
                ELSE IF MesesEntre(h, agora) >= MESES_PARA_FERIAS THEN agora
                ELSE h + (MESES_PARA_FERIAS * 30) * TicksPerDay)

\* eleven months after the hire date the call returned the 360th day after it
C22_Witness ==
    /\ ret.op = "obter_proxima_data_ferias"
    /\ funcionario.data_admissao = DT(2023, 1, 15, 0)
    /\ agora = DT(2023, 12, 15, 1)
    /\ ret.proxima_data = DT(2024, 1, 10, 0)

\* C26: when the employee is not yet eligible, the date returned by
\* obter_proxima_data_ferias is one on which the employee is entitled to
\* vacation: evaluated on that date, the elapsed months reach the threshold
\* and the accrued days are positive.
C26_ProximaDataDaDireito ==
    (/\ ret.op = "avaliado"
     /\ MesesEntre(funcionario.data_admissao, ret.chamada_em) < MESES_PARA_FERIAS)
        => /\ MesesEntre(funcionario.data_admissao, ret.proxima_data) >= MESES_PARA_FERIAS
           /\ ret.dias_disponiveis > 0

(***************************************************************************)
(* The formatters of Validators and the phone check on typed strings       *)
(***************************************************************************)
\* the formatter that never punctuates
formatar_cpf_sem_pontos(raw) == re_sub_D(raw)

\* f"{cpf[:3]}.{cpf[3:6]}.{cpf[6:9]}-{cpf[9:]}" or the stripped string
formatar_cpf(raw) ==
    LET cpf == re_sub_D(raw)
    IN  IF Len(cpf) = 11
        THEN SubSeq(cpf, 1, 3) \o <<".">> \o SubSeq(cpf, 4, 6) \o <<".">>
                 \o SubSeq(cpf, 7, 9) \o <<"-">> \o SubSeq(cpf, 10, Len(cpf))
        ELSE cpf

\* f"({telefone[:2]}) {telefone[2:7]}-{telefone[7:]}", the same with
\* telefone[2:6] and telefone[6:], or the stripped string
formatar_telefone(raw) ==
    LET telefone == re_sub_D(raw)
    IN  IF Len(telefone) = 11
        THEN <<"(">> \o SubSeq(telefone, 1, 2) \o <<")", " ">> \o SubSeq(telefone, 3, 7)
                 \o <<"-">> \o SubSeq(telefone, 8, Len(telefone))
        ELSE IF Len(telefone) = 10
        THEN <<"(">> \o SubSeq(telefone, 1, 2) \o <<")", " ">> \o SubSeq(telefone, 3, 6)
                 \o <<"-">> \o SubSeq(telefone, 7, Len(telefone))
        ELSE telefone

\* typed phone strings: 8 to 12 times "9" with one more character (a digit
\* or not) put in at any place, after "", "+" or "(" and before "", " " or "a"
TelefonesDigitados ==
    { pre \o SubSeq([i \in 1..n |-> "9"], 1, k) \o <<c>> \o SubSeq([i \in 1..n |-> "9"], k + 1, n)
          \o suf :
        pre \in { <<>>, <<"+">>, <<"(">> }, suf \in { <<>>, <<" ">>, <<"a">> },
        c \in { "-", "7", FULLWIDTH_1 }, k \in 0..8, n \in 8..12 }
    \cup { <<>>, <<"a", "b">>, <<"(", ")", " ", "-">> }

FormatarCpf ==
    /\ ret.op = "none"
    /\ \E cpf \in Cpfs :
          ret' = [op |-> "formatar_cpf", cpf |-> cpf, resultado |-> formatar_cpf(cpf)]
    /\ UNCHANGED <<agora, funcionario, afastamentos, funcionarios, tabela, proximo_id, sessao, usuarios>>

FormatarTelefone ==
    /\ ret.op = "none"
    /\ \E telefone \in TelefonesDigitados :
          ret' = [op |-> "formatar_telefone", telefone |-> telefone,
                  resultado |-> formatar_telefone(telefone)]
    /\ UNCHANGED <<agora, funcionario, afastamentos, funcionarios, tabela, proximo_id, sessao, usuarios>>

ValidarTelefoneDigitado ==
    /\ ret.op = "none"
    /\ \E telefone \in TelefonesDigitados :
          ret' = [op |-> "validar_telefone", telefone |-> telefone,
                  resultado |-> validar_telefone(telefone)]
    /\ UNCHANGED <<agora, funcionario, afastamentos, funcionarios, tabela, proximo_id, sessao, usuarios>>

NextFormatadores == FormatarCpf \/ FormatarTelefone \/ ValidarTelefoneDigitado

SpecFormatadores == InitValidadores /\ [][NextFormatadores]_vars

\* the digit characters of a string, in their order
SoDigitos(s) == SelectSeq(s, LAMBDA c : c \in Digitos)

\* XXX.XXX.XXX-XX, (XX) XXXXX-XXXX and (XX) XXXX-XXXX over the digits d
LayoutCpf(d) ==
    << d[1], d[2], d[3], ".", d[4], d[5], d[6], ".", d[7], d[8], d[9], "-", d[10], d[11] >>
Layout11(d) ==
    << "(", d[1], d[2], ")", " ", d[3], d[4], d[5], d[6], d[7], "-", d[8], d[9], d[10], d[11] >>
Layout10(d) ==
    << "(", d[1], d[2], ")", " ", d[3], d[4], d[5], d[6], "-", d[7], d[8], d[9], d[10] >>

\* the formatters punctuate an input of 11 digits (ID) and of 10 or 11 digits
\* (phone, one layout for each length)
Pontua ==
    /\ ret.op = "formatar_cpf" =>
          (Len(SoDigitos(ret.cpf)) = 11 => ret.resultado = LayoutCpf(SoDigitos(ret.cpf)))
    /\ ret.op = "formatar_telefone" =>
          /\ Len(SoDigitos(ret.telefone)) = 11 => ret.resultado = Layout11(SoDigitos(ret.telefone))
          /\ Len(SoDigitos(ret.telefone)) = 10 => ret.resultado = Layout10(SoDigitos(ret.telefone))

\* C23 (amended): formatar_cpf and formatar_telefone insert the canonical
\* punctuation when the input has 11 digits (ID) or 10 or 11 digits (phone,
\* with a layout that differs between 10 and 11), and otherwise return the
\* input with every non-digit character removed.
C23_Formatadores ==
    /\ Pontua
    /\ ret.op = "formatar_cpf" =>
          (Len(SoDigitos(ret.cpf)) # 11 => ret.resultado = SoDigitos(ret.cpf))
    /\ ret.op = "formatar_telefone" =>
          (Len(SoDigitos(ret.telefone)) \notin {10, 11}
              => ret.resultado = SoDigitos(ret.telefone))

\* C23 as stated: with another number of digits the formatters return the
\* input string unchanged, exactly as it was passed in.
C23_EntradaInalterada ==
    /\ Pontua
    /\ ret.op = "formatar_cpf" =>
          (Len(SoDigitos(ret.cpf)) # 11 => ret.resultado = ret.cpf)
    /\ ret.op = "formatar_telefone" =>
          (Len(SoDigitos(ret.telefone)) \notin {10, 11} => ret.resultado = ret.telefone)

\* a phone typed with eight digits, a plus sign, a hyphen and a blank came
\* back as its eight digits
C23_Witness ==
    /\ ret.op = "formatar_telefone"
    /\ ret.telefone = <<"+", "9", "9", "9", "9", "-", "9", "9", "9", "9", " ">>
    /\ ret.resultado = <<"9", "9", "9", "9", "9", "9", "9", "9">>

\* C24: validar_telefone strips every non-digit character and returns true
\* iff exactly 10 or 11 digits remain, for every input string.
C24_ValidarTelefone ==
    ret.op = "validar_telefone" =>
        ret.resultado = (Len(SoDigitos(ret.telefone)) = 10 \/ Len(SoDigitos(ret.telefone)) = 11)

\* ten digits between a parenthesis, a hyphen and a letter are accepted
C24_Witness ==
    /\ ret.op = "validar_telefone"
    /\ ret.telefone = <<"(", "9", "9", "-", "9", "9", "9", "9", "9", "9", "9", "9", "a">>
    /\ ret.resultado

\* the active users with the given username whose stored hash is the hash of
\* the given password
Credenciados(username, senha) ==
    { i \in DOMAIN usuarios : /\ usuarios[i].username = username
                              /\ usuarios[i].ativo
                              /\ usuarios[i].senha_hash = hash_senha(senha) }

\* C25: autenticar(username, password) returns a user only if a user with that
\* username exists, is active, and the hash of the supplied password equals the
\* stored hash; on success it records the last-access time of that user and no
\* other user record changes; in every other case it returns None and no user
\* record changes.  A user deactivated by deletar_usuario stays deactivated and
\* autenticar never returns that user again.
C25_Autenticar ==
    /\ [][ret'.op = "autenticar" =>
             IF ret'.resultado # None
             THEN \E i \in Credenciados(ret'.username, ret'.senha) :
                     /\ usuarios[i].id = ret'.resultado
                     /\ DOMAIN usuarios' = DOMAIN usuarios
                     /\ usuarios'[i].ultimo_acesso = agora
                     /\ \A j \in DOMAIN usuarios : j # i => usuarios'[j] = usuarios[j]
             ELSE UNCHANGED usuarios]_vars
    /\ [][\A i \in DOMAIN usuarios :
             ~usuarios[i].ativo =>
                 /\ i \in DOMAIN usuarios' /\ usuarios'[i].id = usuarios[i].id
                 /\ ~usuarios'[i].ativo
                 /\ ~(ret'.op = "autenticar" /\ ret'.resultado = usuarios[i].id)]_vars

\* the second user logged in with a redefined password after the
\* administrator had been deactivated
C25_Witness ==
    /\ ret.op = "autenticar"
    /\ ret.resultado = 2
    /\ ret.senha = "admin123"
    /\ Len(usuarios) >= 2
    /\ usuarios[2].ultimo_acesso = agora
    /\ usuarios[2].senha_hash = hash_senha("admin123")
    /\ ~usuarios[1].ativo
    /\ usuarios[1].ultimo_acesso = agora

(***************************************************************************)
(* A history that grows by validated vacation requests only: the caller    *)
(* evaluates validar_ferias against the history and appends the request as *)
(* a vacation record when the answer is ok                                 *)
(***************************************************************************)
\* the start and end dates of the requests
DatasAdicao ==
    { DT(2024, 1, 1, 0), DT(2024, 1, 15, 0), DT(2024, 1, 16, 0), DT(2024, 1, 30, 0),
      DT(2024, 1, 31, 0) }

\* an employee with 30 accrued days, one with none, and one without hire date
InitAdicoes ==
    /\ agora = DT(2024, 6, 1, 1)
    /\ funcionario \in { Funcionario(1, DT(2023, 1, 1, 0)), Funcionario(1, DT(2024, 3, 1, 0)),
                         Funcionario(1, None) }
    /\ afastamentos = <<>>
    /\ ret = [op |-> "none"]
    /\ AppIdle

\* validate, and append only when the answer is ok
AdicionarSeValido ==
    /\ Len(afastamentos) < MaxSerial
    /\ \E data_inicio \in DatasAdicao, data_fim \in DatasAdicao :
          LET resultado == validar_ferias(funcionario, data_inicio, data_fim, afastamentos)
          IN  /\ ret' = [op |-> "adicionar", resultado |-> resultado]
              /\ afastamentos' =
                    IF resultado[1]
                    THEN Append(afastamentos,
                                Afastamento(None, funcionario.id, FERIAS, data_inicio, data_fim))
                    ELSE afastamentos
    /\ UNCHANGED <<agora, funcionario, funcionarios, tabela, proximo_id, sessao, usuarios>>

NextAdicoes == AdicionarSeValido

SpecAdicoes == InitAdicoes /\ [][NextAdicoes]_vars

\* the days of the vacation records of a history: end - start in whole days,
\* plus one, summed
RECURSIVE DiasDeFerias(_)
DiasDeFerias(afs) ==
    IF afs = <<>> THEN 0
    ELSE (IF Head(afs).tipo = FERIAS
          THEN ((Head(afs).data_fim - Head(afs).data_inicio) \div TicksPerDay) + 1
          ELSE 0) + DiasDeFerias(Tail(afs))

\* C27: starting from an empty history and at a fixed evaluation date, when
\* vacation records are added only after validar_ferias returned ok for them,
\* one at a time, the total of vacation days consumed never exceeds the
\* accrued days.
C27_ConsumidoNaoExcedeDireito ==
    DiasDeFerias(afastamentos) <= calcular_dias_ferias_disponiveis(funcionario)

\* 15 and 15 days were accepted against 30 accrued, and a third request of one
\* day was refused for the balance
C27_Witness ==
    /\ ret.op = "adicionar"
    /\ Len(afastamentos) = 2
    /\ DiasDeFerias(afastamentos) = 30
    /\ calcular_dias_ferias_disponiveis(funcionario) = 30
    /\ ret.resultado = <<FALSE, <<"apenas dias disponiveis", 0, 1>>>>

(***************************************************************************)
(* Properties of the balance and of the validator on inverted periods and  *)
(* on values with a time of day (SpecFerias)                               *)
(***************************************************************************)
\* C28: the remaining days never exceed the accrued days, for every history
\* the store can hold, stored vacation records whose end date precedes their
\* start date included.
C28_RestantesNaoExcedemDireito ==
    Relatou => ret.relatorio.dias_restantes <= ret.relatorio.dias_disponiveis

\* C29: validar_ferias never returns ok for a requested period whose end date
\* precedes its start date, whatever the employee's balance and history.
C29_FimAntesDoInicioRecusado ==
    (Validou /\ ret.data_fim < ret.data_inicio) => ret.resultado[1] = FALSE

\* the calendar day of dt at the time of day t
NaHora(dt, t) == (dt \div TicksPerDay) * TicksPerDay + t

Horas == 0..(TicksPerDay - 1)

\* the record a with other times of day on the same calendar days
ComHoras(a, t1, t2) ==
    [a EXCEPT !.data_inicio = NaHora(a.data_inicio, t1), !.data_fim = NaHora(a.data_fim, t2)]

\* C30: durations and conflicts are decided by calendar day: changing the
\* times of day of the start and end values while keeping their calendar days
\* changes neither the day count of a record nor whether validar_ferias finds a
\* conflict.
C30_GranularidadeDeDia ==
    /\ (ret.op = "dias_afastamento" /\ Datado(ret.afastamento)) =>
          \A t1, t2 \in Horas :
              dias_afastamento(ComHoras(ret.afastamento, t1, t2)) = ret.dias
    /\ Validou =>
          \A t1, t2, t3, t4 \in Horas :
              LET outros == [i \in DOMAIN afastamentos |->
                                IF Datado(afastamentos[i])
                                THEN ComHoras(afastamentos[i], t3, t4)
                                ELSE afastamentos[i]]
              IN  (conflito_loop(NaHora(ret.data_inicio, t1), NaHora(ret.data_fim, t2),
                                 outros, 1) # 0)
                    = (conflito_loop(ret.data_inicio, ret.data_fim, afastamentos, 1) # 0)

====
